---- MODULE Spec2Model ----
(***************************************************************************)
(* Model of the drawing-entity data model (packages/data-model/src/entity) *)
(* of realdwg-web: the leader's lazily rebuilt spline, the face's edge     *)
(* invisibility mask and the raster image's boundary path.                 *)
(*                                                                         *)
(* Every method call is one action.  The outcome of the last call (its     *)
(* arguments, whether it threw, what it returned) is kept in a call record *)
(* per entity so that properties can speak about results.                  *)
(***************************************************************************)
EXTENDS Integers, Sequences, FiniteSets

VARIABLES
    \* AcDbLeader
    vertices,            \* _vertices: AcGePoint3d[]
    isSplined,           \* _isSplined
    updated,             \* _updated (the dirty flag)
    splineGeo,           \* _splineGeo?: AcGeSpline3d
    leaderCall,          \* the last call made on the leader and its outcome
    \* AcDbFace
    edgeInvisibilities,  \* _edgeInvisibilities
    faceCall,            \* the last call made on the face and its outcome
    \* AcDbRasterImage
    position,            \* _position: AcGePoint3d
    width,               \* _width
    height,              \* _height
    rotation,            \* _rotation, in quarter turns (multiples of pi/2)
    isClipped,           \* _isClipped
    clipBoundary,        \* _clipBoundary: AcGePoint2d[]
    imageCall,           \* the last call made on the image and its outcome
    image,               \* _image?: Blob, as "is there a blob"
    \* AcGiRenderer
    fillType,            \* renderer.subEntityTraits.fillType
    giCall,              \* the last draw: the entity, whether it threw, its renderer calls
    \* AcDbViewport
    viewport,            \* _number, and whether ownerId is the model space's objectId
    \* AcDbHatch
    hatch,               \* _isSolidFill and _patternName
    \* AcDbText, AcDbMText and the text style table of their database
    textStyleTable,      \* database.tables.textStyleTable, as the set of its names
    text,                \* AcDbText: _styleName
    mtext,               \* AcDbMText: _styleName
    \* AcDbEntity and the database it is attached to
    entity,              \* _layer, _color, _lineType
    database,            \* tables.layerTable, tables.linetypeTable, cecolor
    entityCall,          \* the last style query on the entity and its result
    \* the entity whose properties tree is being edited
    edited,              \* its type and the row of the tree that is being edited
    fields,              \* its typed properties, by path (e.g. "center.x")
    propCall,            \* the last call on the row and its outcome
    \* AcDbLine
    line,                \* _geo: startPoint and endPoint
    snapPoints,          \* the caller's snapPoints array after the last call
    lineCall,            \* the last call made on the line and its arguments
    \* AcDbFace, AcDbTrace and the polylines, as the grip editor holds one
    shape,               \* its type, its vertex list and its elevation
    shapeCall,           \* the last call made on it and its outcome
    \* AcDbRay and AcDbXline
    ray,                 \* its type, _basePoint and _unitDir
    rayCall,             \* the last call made on it and its outcome
    \* AcDbMText: background
    backgroundFill,      \* _backgroundFill
    backgroundFillColor, \* _backgroundFillColor
    mtextCall,           \* the last background assignment made on the mtext
    \* the editor
    selected             \* the kind of entity the editor holds for its queries

leaderVars == <<vertices, isSplined, updated, splineGeo, leaderCall>>
faceVars == <<edgeInvisibilities, faceCall>>
imageVars == <<position, width, height, rotation, isClipped, clipBoundary, imageCall>>
giVars == <<fillType, giCall>>
drawnVars == <<image, viewport, hatch, textStyleTable, text, mtext>>
styleVars == <<entity, database, entityCall>>
propVars == <<edited, fields, propCall>>
lineVars == <<line, snapPoints, lineCall>>
vertexVars == <<shape, shapeCall>>
rayVars == <<ray, rayCall>>
backgroundVars == <<backgroundFill, backgroundFillColor, mtextCall>>
moreVars == <<vertexVars, rayVars, backgroundVars, selected>>
restVars == <<drawnVars, styleVars, propVars, lineVars, moreVars>>
otherVars == <<giVars, restVars>>
vars == <<leaderVars, faceVars, imageVars, otherVars>>

----------------------------------------------------------------------------
(* Bounds *)

\* largest coordinate of a point handed to the model
MaxCoord == 1
\* longest leader vertex list
MaxVerts == 3
\* indices handed to the indexed operations range over -MaxIdx .. MaxIdx + 2
MaxIdx == 3
\* largest edge-invisibility mask handed to setEdgeInvisibilities
MaxMask == 15
\* image width and height range over -1 .. MaxSize
MaxSize == 1
\* image rotation ranges over -MaxRot .. MaxRot quarter turns
MaxRot == 1
\* longest clip boundary handed to the image
MaxClipLen == 5
\* clip polygons are shifted by (o, MaxClipOff - o) for o in 0 .. MaxClipOff
MaxClipOff == 1

\* numeric property values range over 0 .. MaxVal
MaxVal == 1
\* RGB values of colours range over 1 .. MaxRgb
MaxRgb == 2
\* viewport numbers range over -1 .. MaxNumber
MaxNumber == 2

Pt(px, py, pz) == [x |-> px, y |-> py, z |-> pz]

----------------------------------------------------------------------------
(* AcGiRenderer, as the entities' draw methods use it *)

\* The calls one draw makes on the renderer are kept in order: a write to
\* renderer.subEntityTraits with the names of the traits written, or a
\* primitive call with its name, the boundary path handed to it (image and
\* wipeout) and the text style handed to it (mtext).
TraitWrite(names) ==
    [call |-> "subEntityTraits", written |-> names, boundary |-> <<>>, style |-> ""]
Primitive(name, boundary, style) ==
    [call |-> name, written |-> {}, boundary |-> boundary, style |-> style]

\* AcDbEntity.attachToEntityTraits(traits)
EntityTraits ==
    {"rgbColor", "color", "lineTypeScale", "lineWeight", "transparency", "layer"}
AttachToEntityTraits == TraitWrite(EntityTraits)

\* traits.fillType: not yet written by any entity, or {solidFill, ...}
NoFillType == [isSet |-> FALSE, solidFill |-> FALSE]
FillType(solidFill) == [isSet |-> TRUE, solidFill |-> solidFill]

\* what attachEntityInfo(target) has put on the rendered entity a draw returns
NoInfo == [tagged |-> FALSE, objectId |-> "", layerName |-> "", visible |-> FALSE]
EntityInfo(objectId, layerName, visible) ==
    [tagged |-> TRUE, objectId |-> objectId, layerName |-> layerName, visible |-> visible]

\* `ret` is what the draw returned: the renderer's entity for its primitive,
\* a group, or undefined ("none" when the draw threw or none was made)
GiCall(typeName, threw, log) ==
    [entity |-> typeName, threw |-> threw, log |-> log,
     ret |-> IF threw \/ typeName = "none" THEN "none" ELSE "entity", info |-> NoInfo]

GiInit ==
    /\ fillType = NoFillType
    /\ giCall = GiCall("none", FALSE, <<>>)

\* points handed to appendVertex / setVertexAt
LeaderPoints == {Pt(px, 0, 0) : px \in 0..MaxCoord}
Indices == (0 - MaxIdx)..(MaxIdx + 2)

----------------------------------------------------------------------------
(* AcDbLeader *)

\* `undefined` for an absent _splineGeo
NullSpline == [isNull |-> TRUE, fitPoints |-> <<>>]

\* new AcGeSpline3d(points, 'Uniform'): the spline is determined by the fit
\* points it was built from, in their order
AcGeSpline3d(points) == [isNull |-> FALSE, fitPoints |-> points]

NoPoint == Pt(0 - 1, 0 - 1, 0 - 1)

LeaderCall(op, index, point, threw, rebuilds, src, ret) ==
    [op |-> op, index |-> index, point |-> point, threw |-> threw,
     rebuilds |-> rebuilds, src |-> src, ret |-> ret]

numVertices == Len(vertices)

\* JS array read: arr[index] is undefined outside 0 .. length-1
IsDefinedAt(arr, index) == index >= 0 /\ index < Len(arr)

LeaderInit ==
    /\ vertices = <<>>
    /\ isSplined = FALSE
    /\ updated = FALSE
    /\ splineGeo = NullSpline
    /\ leaderCall = LeaderCall("new", 0, NoPoint, FALSE, 0, "none", <<>>)

SetIsSplined(value) ==
    /\ isSplined' = value
    /\ leaderCall' = LeaderCall("isSplined", 0, NoPoint, FALSE, 0, "none", <<>>)
    /\ UNCHANGED <<vertices, updated, splineGeo>>

AppendVertexStale(point) ==
    /\ Len(vertices) < MaxVerts
    /\ vertices' = Append(vertices, point)
    /\ leaderCall' = LeaderCall("appendVertex", 0, point, FALSE, 0, "none", <<>>)
    /\ UNCHANGED <<isSplined, updated, splineGeo>>

AppendVertex(point) ==
    /\ Len(vertices) < MaxVerts
    /\ vertices' = Append(vertices, point)
    /\ updated' = TRUE
    /\ leaderCall' = LeaderCall("appendVertex", 0, point, FALSE, 0, "none", <<>>)
    /\ UNCHANGED <<isSplined, splineGeo>>

SetVertexAtFlagFirst(index, point) ==
    IF index < 0 \/ index >= Len(vertices)
    THEN /\ updated' = TRUE
         /\ leaderCall' = LeaderCall("setVertexAt", index, point, TRUE, 0, "none", <<>>)
         /\ UNCHANGED <<vertices, isSplined, splineGeo>>
    ELSE /\ leaderCall' = LeaderCall("setVertexAt", index, point, TRUE, 0, "none", <<>>)
         /\ UNCHANGED <<vertices, isSplined, updated, splineGeo>>

\* setVertexAt: the guard is true for the indices OUTSIDE the list; there
\* _vertices[index] is undefined and `.copy` raises a TypeError before
\* `_updated = true`.  Whatever the guard, the method ends in the throw.
SetVertexAt(index, point) ==
    IF index < 0 \/ index >= Len(vertices)
    THEN IF IsDefinedAt(vertices, index)
         THEN /\ vertices' = [vertices EXCEPT ![index + 1] = point]
              /\ updated' = TRUE
              /\ leaderCall' = LeaderCall("setVertexAt", index, point, TRUE, 0, "none", <<>>)
              /\ UNCHANGED <<isSplined, splineGeo>>
         ELSE /\ leaderCall' = LeaderCall("setVertexAt", index, point, TRUE, 0, "none", <<>>)
              /\ UNCHANGED <<vertices, isSplined, updated, splineGeo>>
    ELSE /\ leaderCall' = LeaderCall("setVertexAt", index, point, TRUE, 0, "none", <<>>)
         /\ UNCHANGED <<vertices, isSplined, updated, splineGeo>>

\* vertexAt: the guarded statement is an expression with no effect and no
\* return; the method always ends in the throw.
VertexAt(index) ==
    /\ leaderCall' = LeaderCall("vertexAt", index, NoPoint, TRUE, 0, "none", <<>>)
    /\ UNCHANGED <<vertices, isSplined, updated, splineGeo>>

\* The cache as it is threaded through the reads of one call:
\* c = [splineGeo, updated, rebuilds], rebuilds counting the splines built.
Cache(g, u, n) == [splineGeo |-> g, updated |-> u, rebuilds |-> n]

CreateSplineKeepDirty(c) ==
    IF isSplined /\ numVertices >= 2 /\ (c.splineGeo.isNull \/ c.updated)
    THEN Cache(AcGeSpline3d(vertices), c.updated, c.rebuilds + 1)
    ELSE c

CreateSplineIfNeeded(c) ==
    IF isSplined /\ numVertices >= 2 /\ (c.splineGeo.isNull \/ c.updated)
    THEN Cache(AcGeSpline3d(vertices), FALSE, c.rebuilds + 1)
    ELSE c

SplineGeoGetAnyLength(c) ==
    IF isSplined /\ (c.splineGeo.isNull \/ c.updated)
    THEN Cache(AcGeSpline3d(vertices), FALSE, c.rebuilds + 1)
    ELSE c

\* get splineGeo(): createSplineIfNeeded(), then return _splineGeo
SplineGeoGet(c) == CreateSplineIfNeeded(c)

ReadSplineDropsFlag(op) ==
    LET c0 == Cache(splineGeo, updated, 0)
        c1 == IF isSplined THEN SplineGeoGet(c0) ELSE c0
        useSpline == isSplined /\ ~c1.splineGeo.isNull
        c2 == IF useSpline THEN SplineGeoGet(c1) ELSE c1
    IN  /\ splineGeo' = c2.splineGeo
        /\ updated' = c2.updated
        /\ leaderCall' =
             IF useSpline
             THEN LeaderCall(op, 0, NoPoint, FALSE, c2.rebuilds, "spline",
                             c2.splineGeo.fitPoints)
             ELSE LeaderCall(op, 0, NoPoint, FALSE, c2.rebuilds, "vertices", vertices)
        /\ isSplined' = (isSplined /\ ~useSpline)
        /\ UNCHANGED vertices

\* `isSplined && this.splineGeo` followed, when truthy, by a second
\* `this.splineGeo` read: the getter runs once or twice per call.
ReadSpline(op) ==
    LET c0 == Cache(splineGeo, updated, 0)
        c1 == IF isSplined THEN SplineGeoGet(c0) ELSE c0
        useSpline == isSplined /\ ~c1.splineGeo.isNull
        c2 == IF useSpline THEN SplineGeoGet(c1) ELSE c1
    IN  /\ splineGeo' = c2.splineGeo
        /\ updated' = c2.updated
        /\ leaderCall' =
             IF useSpline
             THEN LeaderCall(op, 0, NoPoint, FALSE, c2.rebuilds, "spline",
                             c2.splineGeo.fitPoints)
             ELSE LeaderCall(op, 0, NoPoint, FALSE, c2.rebuilds, "vertices", vertices)
        /\ UNCHANGED <<vertices, isSplined>>

\* get geometricExtents(): the box of the spline, or of the vertices
LeaderGeometricExtents == ReadSpline("geometricExtents")

\* draw(renderer): renderer.lines of the spline's points, or of the vertices
LeaderDraw ==
    /\ ReadSpline("draw")
    /\ giCall' = GiCall("Leader", FALSE,
                        <<AttachToEntityTraits, Primitive("lines", <<>>, "")>>)
    /\ UNCHANGED fillType

\* The calls a client can make on a leader, with every argument it can pass.
CallSetIsSplined == (\E value \in BOOLEAN : SetIsSplined(value)) /\ UNCHANGED <<faceVars, imageVars, otherVars>>
CallAppendVertex == (\E point \in LeaderPoints : AppendVertex(point)) /\ UNCHANGED <<faceVars, imageVars, otherVars>>
CallSetVertexAt ==
    /\ \E index \in Indices, point \in LeaderPoints : SetVertexAt(index, point)
    /\ UNCHANGED <<faceVars, imageVars, otherVars>>
CallVertexAt == (\E index \in Indices : VertexAt(index)) /\ UNCHANGED <<faceVars, imageVars, otherVars>>
CallLeaderGeometricExtents == LeaderGeometricExtents /\ UNCHANGED <<faceVars, imageVars, otherVars>>
CallLeaderDraw == LeaderDraw /\ UNCHANGED <<faceVars, imageVars, restVars>>

LeaderNext ==
    \/ CallSetIsSplined
    \/ CallAppendVertex
    \/ CallSetVertexAt
    \/ CallVertexAt
    \/ CallLeaderGeometricExtents
    \/ CallLeaderDraw

----------------------------------------------------------------------------
(* AcDbFace *)

RECURSIVE Pow2(_)
Pow2(n) == IF n <= 0 THEN 1 ELSE 2 * Pow2(n - 1)

\* a & b and a | b on non-negative integers
RECURSIVE BitAnd(_, _)
BitAnd(a, b) ==
    IF a = 0 \/ b = 0 THEN 0
    ELSE (IF a % 2 = 1 /\ b % 2 = 1 THEN 1 ELSE 0) + 2 * BitAnd(a \div 2, b \div 2)

RECURSIVE BitXor(_, _)
BitXor(a, b) ==
    IF a = 0 THEN b
    ELSE IF b = 0 THEN a
    ELSE (IF a % 2 # b % 2 THEN 1 ELSE 0) + 2 * BitXor(a \div 2, b \div 2)

RECURSIVE BitOr(_, _)
BitOr(a, b) ==
    IF a = 0 THEN b
    ELSE IF b = 0 THEN a
    ELSE (IF a % 2 = 1 \/ b % 2 = 1 THEN 1 ELSE 0) + 2 * BitOr(a \div 2, b \div 2)

FaceCall(op, index, threw, ret) ==
    [op |-> op, index |-> index, threw |-> threw, ret |-> ret]

FaceInit ==
    /\ edgeInvisibilities = 0
    /\ faceCall = FaceCall("new", 0, FALSE, FALSE)

SetEdgeInvisibilities(invisibilities) ==
    /\ edgeInvisibilities' = invisibilities
    /\ faceCall' = FaceCall("setEdgeInvisibilities", invisibilities, FALSE, FALSE)

IsEdgeVisibleAtInverted(index) ==
    /\ faceCall' =
         IF index < 0 \/ index > 3
         THEN FaceCall("isEdgeVisibleAt", index, TRUE, FALSE)
         ELSE FaceCall("isEdgeVisibleAt", index, FALSE,
                       BitAnd(edgeInvisibilities, Pow2(index)) # 0)
    /\ UNCHANGED edgeInvisibilities

IsEdgeVisibleAt(index) ==
    /\ faceCall' =
         IF index < 0 \/ index > 3
         THEN FaceCall("isEdgeVisibleAt", index, TRUE, FALSE)
         ELSE FaceCall("isEdgeVisibleAt", index, FALSE,
                       BitAnd(edgeInvisibilities, Pow2(index)) = 0)
    /\ UNCHANGED edgeInvisibilities

MakeEdgeInvisibleAtClamped(index) ==
    LET i == IF index < 0 THEN 0 ELSE IF index > 3 THEN 3 ELSE index
    IN  /\ edgeInvisibilities' = BitOr(edgeInvisibilities, Pow2(i))
        /\ faceCall' = FaceCall("makeEdgeInvisibleAt", index, FALSE, FALSE)

MakeEdgeInvisibleAt(index) ==
    IF index < 0 \/ index > 3
    THEN /\ faceCall' = FaceCall("makeEdgeInvisibleAt", index, TRUE, FALSE)
         /\ UNCHANGED edgeInvisibilities
    ELSE /\ edgeInvisibilities' = BitOr(edgeInvisibilities, Pow2(index))
         /\ faceCall' = FaceCall("makeEdgeInvisibleAt", index, FALSE, FALSE)

\* The calls a client can make on a face, with every argument it can pass.
CallSetEdgeInvisibilities ==
    /\ \E invisibilities \in 0..MaxMask : SetEdgeInvisibilities(invisibilities)
    /\ UNCHANGED <<leaderVars, imageVars, otherVars>>
CallIsEdgeVisibleAt == (\E index \in Indices : IsEdgeVisibleAt(index)) /\ UNCHANGED <<leaderVars, imageVars, otherVars>>
CallMakeEdgeInvisibleAt ==
    (\E index \in Indices : MakeEdgeInvisibleAt(index)) /\ UNCHANGED <<leaderVars, imageVars, otherVars>>

FaceNext ==
    \/ CallSetEdgeInvisibilities
    \/ CallIsEdgeVisibleAt
    \/ CallMakeEdgeInvisibleAt

----------------------------------------------------------------------------
(* AcDbRasterImage *)

Pt2(px, py) == [x |-> px, y |-> py]

\* Angles are multiples of pi/2, so that sine and cosine are exact.
CosQ(q) == CASE q % 4 = 0 -> 1 [] q % 4 = 1 -> 0 [] q % 4 = 2 -> 0 - 1 [] OTHER -> 0
SinQ(q) == CASE q % 4 = 0 -> 0 [] q % 4 = 1 -> 1 [] q % 4 = 2 -> 0 [] OTHER -> 0 - 1

\* AcGePoint2d.rotateAround(center, angle)
RotateAround(p, center, angle) ==
    LET dx == p.x - center.x
        dy == p.y - center.y
    IN  Pt2(dx * CosQ(angle) - dy * SinQ(angle) + center.x,
            dx * SinQ(angle) + dy * CosQ(angle) + center.y)

SetMin(S) == CHOOSE m \in S : \A n \in S : m <= n

\* AcGeBox2d.setFromPoints(points).min
BoxMin(points) ==
    Pt2(SetMin({points[i].x : i \in 1..Len(points)}),
        SetMin({points[i].y : i \in 1..Len(points)}))

\* The clip polygons handed to the clipBoundary setter: the first n corners
\* of a walk round the unit square that starts away from its minimum corner,
\* shifted by (ox, oy).
ClipWalk(k) ==
    CASE k % 4 = 1 -> Pt2(1, 0) [] k % 4 = 2 -> Pt2(1, 1)
      [] k % 4 = 3 -> Pt2(0, 1) [] OTHER -> Pt2(0, 0)
ClipPoly(n, ox, oy) == [k \in 1..n |-> Pt2(ClipWalk(k).x + ox, ClipWalk(k).y + oy)]
ClipBoundaries == {ClipPoly(n, o, MaxClipOff - o) : n \in 0..MaxClipLen, o \in 0..MaxClipOff}

ImagePositions == {Pt(px, py, pz) : px \in 0..MaxCoord, py \in 0..MaxCoord, pz \in {0, 1}}
ImageSizes == (0 - 1)..MaxSize
ImageRotations == (0 - MaxRot)..MaxRot

ImageCall(op, ret) == [op |-> op, ret |-> ret]

ImageInit ==
    /\ position = Pt(0, 0, 0)
    /\ width = 0
    /\ height = 0
    /\ rotation = 0
    /\ isClipped = FALSE
    /\ clipBoundary = <<>>
    /\ imageCall = ImageCall("new", <<>>)

SetPosition(value) ==
    /\ position' = value
    /\ imageCall' = ImageCall("set", <<>>)
    /\ UNCHANGED <<width, height, rotation, isClipped, clipBoundary>>

SetWidth(value) ==
    /\ width' = value
    /\ imageCall' = ImageCall("set", <<>>)
    /\ UNCHANGED <<position, height, rotation, isClipped, clipBoundary>>

SetHeight(value) ==
    /\ height' = value
    /\ imageCall' = ImageCall("set", <<>>)
    /\ UNCHANGED <<position, width, rotation, isClipped, clipBoundary>>

SetRotation(value) ==
    /\ rotation' = value
    /\ imageCall' = ImageCall("set", <<>>)
    /\ UNCHANGED <<position, width, height, isClipped, clipBoundary>>

SetIsClipped(value) ==
    /\ isClipped' = value
    /\ imageCall' = ImageCall("set", <<>>)
    /\ UNCHANGED <<position, width, height, rotation, clipBoundary>>

SetClipBoundary(value) ==
    /\ clipBoundary' = value
    /\ imageCall' = ImageCall("set", <<>>)
    /\ UNCHANGED <<position, width, height, rotation, isClipped>>

ClippedPathSlip ==
    LET ocsMin == BoxMin(clipBoundary)
        tx == position.x - ocsMin.x * width
        ty == position.y - ocsMin.x * height
    IN  [i \in 1..Len(clipBoundary) |->
            Pt(clipBoundary[i].x * width + tx, clipBoundary[i].y * height + ty, position.z)]

\* The clipped branch of boundaryPath: every clip vertex scaled by the image
\* size and translated so that the clip box's minimum lands on the position.
ClippedPath ==
    LET ocsMin == BoxMin(clipBoundary)
        tx == position.x - ocsMin.x * width
        ty == position.y - ocsMin.y * height
    IN  [i \in 1..Len(clipBoundary) |->
            Pt(clipBoundary[i].x * width + tx, clipBoundary[i].y * height + ty, position.z)]

\* The unclipped branch: the four corners, corners 1..3 rotated about
\* corner 1 when _rotation > 0, and the first point repeated.
RectanglePath ==
    LET corners == << position,
                      [position EXCEPT !.x = position.x + width],
                      Pt(position.x + width, position.y + height, position.z),
                      [position EXCEPT !.y = position.y + height] >>
        point1 == Pt2(corners[2].x, corners[2].y)
        Turned(c) ==
            LET point2 == RotateAround(Pt2(c.x, c.y), point1, rotation)
            IN  [c EXCEPT !.x = point2.x, !.y = point2.y]
        points == IF rotation > 0
                  THEN [index \in 1..4 |->
                          IF index >= 2 THEN Turned(corners[index]) ELSE corners[index]]
                  ELSE corners
    IN  Append(points, points[1])

BoundaryPathClipAtThree ==
    IF isClipped /\ Len(clipBoundary) >= 3 THEN ClippedPath ELSE RectanglePath

BoundaryPath ==
    IF isClipped /\ Len(clipBoundary) > 3 THEN ClippedPath ELSE RectanglePath

ImageSubGetGripPoints ==
    /\ imageCall' = ImageCall("subGetGripPoints", BoundaryPath)
    /\ UNCHANGED <<position, width, height, rotation, isClipped, clipBoundary>>

\* get geometricExtents(): min is the position, max is the opposite corner
\* with z = 0; returned as <<min, max>>
ImageExtents ==
    <<position, Pt(position.x + width, position.y + height, 0)>>

ImageGeometricExtents ==
    /\ imageCall' = ImageCall("geometricExtents", ImageExtents)
    /\ UNCHANGED <<position, width, height, rotation, isClipped, clipBoundary>>

\* The calls a client can make on an image, with every argument it can pass.
CallSetPosition ==
    (\E value \in ImagePositions : SetPosition(value)) /\ UNCHANGED <<leaderVars, faceVars, otherVars>>
CallSetWidth ==
    (\E value \in ImageSizes : SetWidth(value)) /\ UNCHANGED <<leaderVars, faceVars, otherVars>>
CallSetHeight ==
    (\E value \in ImageSizes : SetHeight(value)) /\ UNCHANGED <<leaderVars, faceVars, otherVars>>
CallSetRotation ==
    (\E value \in ImageRotations : SetRotation(value)) /\ UNCHANGED <<leaderVars, faceVars, otherVars>>
CallSetIsClipped ==
    (\E value \in BOOLEAN : SetIsClipped(value)) /\ UNCHANGED <<leaderVars, faceVars, otherVars>>
CallSetClipBoundary ==
    (\E value \in ClipBoundaries : SetClipBoundary(value)) /\ UNCHANGED <<leaderVars, faceVars, otherVars>>
CallImageSubGetGripPoints == ImageSubGetGripPoints /\ UNCHANGED <<leaderVars, faceVars, otherVars>>
CallImageGeometricExtents == ImageGeometricExtents /\ UNCHANGED <<leaderVars, faceVars, otherVars>>

ImageNext ==
    \/ CallSetPosition
    \/ CallSetWidth
    \/ CallSetHeight
    \/ CallSetRotation
    \/ CallSetIsClipped
    \/ CallSetClipBoundary
    \/ CallImageSubGetGripPoints

\* an image and its extents
ImageExtentsNext ==
    \/ CallSetPosition
    \/ CallSetWidth
    \/ CallSetHeight
    \/ CallSetRotation
    \/ CallSetIsClipped
    \/ CallSetClipBoundary
    \/ CallImageGeometricExtents

----------------------------------------------------------------------------
(* draw(renderer) of the other entity types *)

\* Entities whose draw computes its geometry, calls attachToEntityTraits and
\* then makes one primitive call, whatever their state.
OnePrimitive ==
    [ Line |-> "lines", Xline |-> "lines", Ray |-> "lines", Spline |-> "lines",
      Polyline |-> "lines", Polyline2d |-> "lines", Polyline3d |-> "lines",
      Circle |-> "circularArc", Arc |-> "circularArc",
      Ellipse |-> "ellipticalArc", Point |-> "point", Face |-> "lineSegments" ]

EntityDraw(typeName) ==
    /\ giCall' = GiCall(typeName, FALSE,
                        <<AttachToEntityTraits, Primitive(OnePrimitive[typeName], <<>>, "")>>)
    /\ UNCHANGED fillType

\* AcDbRasterImage
SetImage(value) == image' = value

ImageDraw ==
    /\ giCall' = GiCall("RasterImage", FALSE,
                        << AttachToEntityTraits,
                           IF image THEN Primitive("image", BoundaryPath, "")
                                    ELSE Primitive("lines", BoundaryPath, "") >>)
    /\ UNCHANGED fillType

\* AcDbWipeout
WipeoutDraw ==
    LET points == BoundaryPath
    IN  /\ giCall' = GiCall("Wipeout", FALSE,
                            <<AttachToEntityTraits, Primitive("area", points, "")>>)
        /\ UNCHANGED fillType

\* AcDbViewport
ViewportNumbers == (0 - 1)..MaxNumber

\* number is -1 after construction; layer '0' and visibility true are the
\* AcDbEntity defaults
ViewportInit ==
    viewport = [number |-> 0 - 1, inModelSpace |-> FALSE, objectId |-> "viewport",
                layer |-> "0", visibility |-> TRUE]

SetNumber(value) == viewport' = [viewport EXCEPT !.number = value]
SetOwnerId(isModelSpace) == viewport' = [viewport EXCEPT !.inModelSpace = isModelSpace]
SetViewportLayer(value) == viewport' = [viewport EXCEPT !.layer = value]
SetVisibility(value) == viewport' = [viewport EXCEPT !.visibility = value]

CreateViewportRect ==
    << Primitive("lines", <<>>, ""), Primitive("lines", <<>>, ""),
       Primitive("lines", <<>>, ""), Primitive("lines", <<>>, "") >>

\* AcDbEntity.attachEntityInfo(target), for the viewport
AttachEntityInfo == EntityInfo(viewport.objectId, viewport.layer, viewport.visibility)

ViewportDrawFromOne ==
    /\ giCall' =
         IF viewport.number >= 1 /\ ~viewport.inModelSpace
         THEN [GiCall("Viewport", FALSE,
                      <<AttachToEntityTraits>> \o CreateViewportRect
                         \o <<Primitive("group", <<>>, "")>>)
                  EXCEPT !.ret = "group", !.info = AttachEntityInfo]
         ELSE [GiCall("Viewport", FALSE, <<>>) EXCEPT !.ret = "undefined"]
    /\ UNCHANGED fillType

ViewportDraw ==
    /\ giCall' =
         IF viewport.number > 1 /\ ~viewport.inModelSpace
         THEN [GiCall("Viewport", FALSE,
                      <<AttachToEntityTraits>> \o CreateViewportRect
                         \o <<Primitive("group", <<>>, "")>>)
                  EXCEPT !.ret = "group", !.info = AttachEntityInfo]
         ELSE [GiCall("Viewport", FALSE, <<>>) EXCEPT !.ret = "undefined"]
    /\ UNCHANGED fillType

\* AcDbHatch
PatternNames == {"", "SOLID", "solid", "ANSI31"}

ToUpperCase(s) == IF s = "solid" THEN "SOLID" ELSE s

HatchInit == hatch = [isSolidFill |-> FALSE, patternName |-> ""]

SetIsSolidFill(value) == hatch' = [hatch EXCEPT !.isSolidFill = value]
SetPatternName(value) == hatch' = [hatch EXCEPT !.patternName = value]

\* get isSolidFill()
IsSolidFill == hatch.isSolidFill \/ ToUpperCase(hatch.patternName) = "SOLID"

\* AcDbHatch.attachToEntityTraits: the entity's traits, then fillType
HatchDraw ==
    /\ giCall' = GiCall("Hatch", FALSE,
                        << TraitWrite(EntityTraits \cup {"fillType"}),
                           Primitive("area", <<>>, "") >>)
    /\ fillType' = FillType(IsSolidFill)

\* AcDbTrace
TraceDraw ==
    /\ giCall' = GiCall("Trace", FALSE,
                        << TraitWrite({"fillType"}), AttachToEntityTraits,
                           Primitive("area", <<>>, "") >>)
    /\ fillType' = FillType(TRUE)

\* AcDbText and AcDbMText
StyleNames == {"STANDARD", "Standard", "Arial"}
StyleNameInputs == {"", "Arial"}

TextInit ==
    /\ textStyleTable = {"STANDARD"}
    /\ text = [styleName |-> ""]
    /\ mtext = [styleName |-> ""]

\* the database's text style table gains or loses records
SetTextStyleTable(names) == textStyleTable' = names
SetTextStyleName(value) == text' = [text EXCEPT !.styleName = value]
SetMTextStyleName(value) == mtext' = [mtext EXCEPT !.styleName = value]

\* getTextStyle(): the record under styleName, else the one under 'STANDARD',
\* else the one under 'Standard'; `style.textStyle` on no record at all is a
\* TypeError.
GetTextStyle(styleName) ==
    IF styleName \in textStyleTable THEN [threw |-> FALSE, style |-> styleName]
    ELSE IF "STANDARD" \in textStyleTable THEN [threw |-> FALSE, style |-> "STANDARD"]
    ELSE IF "Standard" \in textStyleTable THEN [threw |-> FALSE, style |-> "Standard"]
    ELSE [threw |-> TRUE, style |-> ""]

\* draw of a text: the style is fetched while the mtext data is built,
\* before the traits are written
MTextDataDraw(typeName, styleName) ==
    LET textStyle == GetTextStyle(styleName)
    IN  /\ giCall' =
             IF textStyle.threw
             THEN GiCall(typeName, TRUE, <<>>)
             ELSE GiCall(typeName, FALSE,
                         <<AttachToEntityTraits, Primitive("mtext", <<>>, textStyle.style)>>)
        /\ UNCHANGED fillType

TextDraw == MTextDataDraw("Text", text.styleName)
MTextDraw == MTextDataDraw("MText", mtext.styleName)

DrawnInit ==
    /\ image = FALSE
    /\ ViewportInit
    /\ HatchInit
    /\ TextInit

\* The draws and the calls that change what a draw does.
CallEntityDraw ==
    (\E typeName \in DOMAIN OnePrimitive : EntityDraw(typeName))
    /\ UNCHANGED <<leaderVars, faceVars, imageVars, restVars>>
CallSetImage ==
    (\E value \in BOOLEAN : SetImage(value))
    /\ UNCHANGED <<leaderVars, faceVars, imageVars, giVars, styleVars, propVars, lineVars, moreVars,
                   viewport, hatch, textStyleTable, text, mtext>>
CallImageDraw == ImageDraw /\ UNCHANGED <<leaderVars, faceVars, imageVars, restVars>>
CallWipeoutDraw == WipeoutDraw /\ UNCHANGED <<leaderVars, faceVars, imageVars, restVars>>
CallSetNumber ==
    (\E value \in ViewportNumbers : SetNumber(value))
    /\ UNCHANGED <<leaderVars, faceVars, imageVars, giVars, styleVars, propVars, lineVars, moreVars,
                   image, hatch, textStyleTable, text, mtext>>
CallSetOwnerId ==
    (\E isModelSpace \in BOOLEAN : SetOwnerId(isModelSpace))
    /\ UNCHANGED <<leaderVars, faceVars, imageVars, giVars, styleVars, propVars, lineVars, moreVars,
                   image, hatch, textStyleTable, text, mtext>>
CallSetViewportLayer ==
    (\E value \in {"0", "A"} : SetViewportLayer(value))
    /\ UNCHANGED <<leaderVars, faceVars, imageVars, giVars, styleVars, propVars, lineVars, moreVars,
                   image, hatch, textStyleTable, text, mtext>>
CallSetVisibility ==
    (\E value \in BOOLEAN : SetVisibility(value))
    /\ UNCHANGED <<leaderVars, faceVars, imageVars, giVars, styleVars, propVars, lineVars, moreVars,
                   image, hatch, textStyleTable, text, mtext>>
CallViewportDraw == ViewportDraw /\ UNCHANGED <<leaderVars, faceVars, imageVars, restVars>>
CallSetIsSolidFill ==
    (\E value \in BOOLEAN : SetIsSolidFill(value))
    /\ UNCHANGED <<leaderVars, faceVars, imageVars, giVars, styleVars, propVars, lineVars, moreVars,
                   image, viewport, textStyleTable, text, mtext>>
CallSetPatternName ==
    (\E value \in PatternNames : SetPatternName(value))
    /\ UNCHANGED <<leaderVars, faceVars, imageVars, giVars, styleVars, propVars, lineVars, moreVars,
                   image, viewport, textStyleTable, text, mtext>>
CallHatchDraw == HatchDraw /\ UNCHANGED <<leaderVars, faceVars, imageVars, restVars>>
CallTraceDraw == TraceDraw /\ UNCHANGED <<leaderVars, faceVars, imageVars, restVars>>
CallSetTextStyleTable ==
    (\E names \in SUBSET StyleNames : SetTextStyleTable(names))
    /\ UNCHANGED <<leaderVars, faceVars, imageVars, giVars, styleVars, propVars, lineVars, moreVars,
                   image, viewport, hatch, text, mtext>>
CallSetTextStyleName ==
    (\E value \in StyleNameInputs : SetTextStyleName(value))
    /\ UNCHANGED <<leaderVars, faceVars, imageVars, giVars, styleVars, propVars, lineVars, moreVars,
                   image, viewport, hatch, textStyleTable, mtext>>
CallSetMTextStyleName ==
    (\E value \in StyleNameInputs : SetMTextStyleName(value))
    /\ UNCHANGED <<leaderVars, faceVars, imageVars, giVars, styleVars, propVars, lineVars, moreVars,
                   image, viewport, hatch, textStyleTable, text>>
CallTextDraw == TextDraw /\ UNCHANGED <<leaderVars, faceVars, imageVars, restVars>>
CallMTextDraw == MTextDraw /\ UNCHANGED <<leaderVars, faceVars, imageVars, restVars>>

\* filled entities and the wipeout on one renderer
FillNext ==
    \/ CallSetIsSolidFill
    \/ CallSetPatternName
    \/ CallHatchDraw
    \/ CallTraceDraw
    \/ CallSetIsClipped
    \/ CallSetRotation
    \/ CallWipeoutDraw

\* a viewport, and a trace drawn on the same renderer
ViewportNext ==
    \/ CallSetNumber
    \/ CallSetOwnerId
    \/ CallSetViewportLayer
    \/ CallSetVisibility
    \/ CallViewportDraw
    \/ CallTraceDraw

\* every entity type's draw
DrawNext ==
    \/ CallEntityDraw
    \/ CallLeaderDraw
    \/ CallSetImage
    \/ CallImageDraw
    \/ CallWipeoutDraw
    \/ CallSetNumber
    \/ CallSetOwnerId
    \/ CallViewportDraw
    \/ CallHatchDraw
    \/ CallTraceDraw
    \/ CallSetTextStyleTable
    \/ CallSetTextStyleName
    \/ CallSetMTextStyleName
    \/ CallTextDraw
    \/ CallMTextDraw

----------------------------------------------------------------------------
(* AcDbEntity: style resolution against the database *)

ByLayer == "ByLayer"
ByBlock == "ByBlock"
DEFAULT_LINE_TYPE == "Continuous"
\* the fallback of rgbColor, 0xffffff
White == 16777215

\* AcCmColor, as rgbColor reads it: isByLayer, isByBlock and RGB (null when
\* the colour carries none); NullColor stands for "no colour object".
NullRGB == 0 - 1
Color(method, rgb) == [method |-> method, RGB |-> rgb]
NullColor == Color("null", NullRGB)
RGBs == {NullRGB} \cup 1..MaxRgb
Colors == {Color(ByLayer, NullRGB), Color(ByBlock, NullRGB)}
              \cup {Color("ByColor", rgb) : rgb \in RGBs}

\* Layer table records: a colour (or none) and a linetype name ('' for none).
LayerNames == {"0", "A"}
LinetypeNames == {DEFAULT_LINE_TYPE, "DASHED"}
NoLayer == [exists |-> FALSE, color |-> NullColor, linetype |-> ""]
LayerRecord(color, linetype) == [exists |-> TRUE, color |-> color, linetype |-> linetype]
LayerRecords ==
    {NoLayer} \cup
    {LayerRecord(c, l) : c \in {NullColor} \cup {Color("ByColor", rgb) : rgb \in RGBs},
                         l \in {"", "DASHED"}}

\* the linetype stored in a linetype table record
LinetypeRecord(name) ==
    [name |-> name, standardFlag |-> 0, description |-> "from table",
     totalPatternLength |-> 1]

NoStyle == [type |-> "", name |-> "", standardFlag |-> 0, description |-> "",
            totalPatternLength |-> 0]
\* op is "set" after a setter and "edit" after a database edit
EntityCall(op, rgb, style) == [op |-> op, rgb |-> rgb, style |-> style]

\* new AcCmColor()
DefaultColor == Color(ByLayer, NullRGB)

\* a new entity, attached to a database that has layer '0' and the default
\* linetype
EntityInit ==
    /\ entity = [layer |-> "0", color |-> DefaultColor, lineType |-> ByLayer]
    /\ database = [layerTable |-> [n \in LayerNames |->
                                     IF n = "0"
                                     THEN LayerRecord(Color("ByColor", 1), DEFAULT_LINE_TYPE)
                                     ELSE NoLayer],
                   linetypeTable |-> {DEFAULT_LINE_TYPE},
                   cecolor |-> Color("ByColor", NullRGB)]
    /\ entityCall = EntityCall("new", NullRGB, NoStyle)

SetLayer(value) ==
    /\ entity' = [entity EXCEPT !.layer = value]
    /\ entityCall' = EntityCall("set", NullRGB, NoStyle)
    /\ UNCHANGED database

\* set color(value): this._color.copy(value)
SetColor(value) ==
    /\ entity' = [entity EXCEPT !.color = value]
    /\ entityCall' = EntityCall("set", NullRGB, NoStyle)
    /\ UNCHANGED database

\* set lineType(value): this._lineType = value || ByLayer
SetLineType(value) ==
    /\ entity' = [entity EXCEPT !.lineType = IF value = "" THEN ByLayer ELSE value]
    /\ entityCall' = EntityCall("set", NullRGB, NoStyle)
    /\ UNCHANGED database

\* The database changes under the entity: layer '0' is added, edited or
\* removed, the linetype table and the current entity colour are edited.
SetLayerRecord(record) ==
    /\ database' = [database EXCEPT !.layerTable["0"] = record]
    /\ entityCall' = EntityCall("edit", NullRGB, NoStyle)
    /\ UNCHANGED entity
SetLinetypeTable(names) ==
    /\ database' = [database EXCEPT !.linetypeTable = names]
    /\ entityCall' = EntityCall("edit", NullRGB, NoStyle)
    /\ UNCHANGED entity
SetCecolor(rgb) ==
    /\ database' = [database EXCEPT !.cecolor = Color("ByColor", rgb)]
    /\ entityCall' = EntityCall("edit", NullRGB, NoStyle)
    /\ UNCHANGED entity

\* tables.layerTable.getAt(this.layer)
LayerOfEntity == database.layerTable[entity.layer]

GetLayerColorDeaf == NullColor

\* getLayerColor(): the layer's colour, or null (and a console.error) when
\* the layer is not in the layer table
GetLayerColor == IF ~LayerOfEntity.exists THEN NullColor ELSE LayerOfEntity.color

RgbColorLayerFirst ==
    LET layerColor == GetLayerColor
        color == IF layerColor # NullColor /\ layerColor.RGB # NullRGB THEN layerColor
                 ELSE IF entity.color.RGB # NullRGB THEN entity.color
                 ELSE database.cecolor
    IN  IF color.RGB # NullRGB THEN color.RGB ELSE White

\* get rgbColor()
RgbColor ==
    LET layerColor == GetLayerColor
        color == IF entity.color.method = ByLayer
                 THEN IF layerColor # NullColor /\ layerColor.RGB # NullRGB
                      THEN layerColor
                      ELSE database.cecolor
                 ELSE IF entity.color.method = ByBlock THEN database.cecolor
                 ELSE IF entity.color.RGB # NullRGB THEN entity.color
                 ELSE database.cecolor
        rgb == color.RGB
    IN  IF rgb # NullRGB THEN rgb ELSE White

GetLineTypeBlockNamed ==
    IF entity.lineType = ByLayer /\ LayerOfEntity.exists /\ LayerOfEntity.linetype # ""
    THEN [type |-> "ByLayer", name |-> LayerOfEntity.linetype]
    ELSE IF entity.lineType = ByLayer
    THEN [type |-> "UserSpecified", name |-> DEFAULT_LINE_TYPE]
    ELSE IF entity.lineType = ByBlock
    THEN [type |-> "ByBlock", name |-> entity.lineType]
    ELSE [type |-> "UserSpecified", name |-> entity.lineType]

\* getLineType()
GetLineType ==
    IF entity.lineType = ByLayer /\ LayerOfEntity.exists /\ LayerOfEntity.linetype # ""
    THEN [type |-> "ByLayer", name |-> LayerOfEntity.linetype]
    ELSE IF entity.lineType = ByLayer
    THEN [type |-> "UserSpecified", name |-> DEFAULT_LINE_TYPE]
    ELSE IF entity.lineType = ByBlock
    THEN [type |-> "ByBlock", name |-> DEFAULT_LINE_TYPE]
    ELSE [type |-> "UserSpecified", name |-> entity.lineType]

\* get lineStyle()
LineStyle ==
    LET lt == GetLineType
        lineTypeRecord == LinetypeRecord(lt.name)
    IN  IF lt.name \in database.linetypeTable
        THEN [type |-> lt.type, name |-> lineTypeRecord.name,
              standardFlag |-> lineTypeRecord.standardFlag,
              description |-> lineTypeRecord.description,
              totalPatternLength |-> lineTypeRecord.totalPatternLength]
        ELSE [type |-> lt.type, name |-> lt.name, standardFlag |-> 0,
              description |-> "", totalPatternLength |-> 0]

ReadRgbColor ==
    /\ entityCall' = EntityCall("rgbColor", RgbColor, NoStyle)
    /\ UNCHANGED <<entity, database>>

ReadLineStyle ==
    /\ entityCall' = EntityCall("lineStyle", NullRGB, LineStyle)
    /\ UNCHANGED <<entity, database>>

\* The calls a client can make on the entity, and the database edits.
CallSetLayer ==
    (\E value \in LayerNames : SetLayer(value))
    /\ UNCHANGED <<leaderVars, faceVars, imageVars, giVars, drawnVars, propVars, lineVars, moreVars>>
CallSetColor ==
    (\E value \in Colors : SetColor(value))
    /\ UNCHANGED <<leaderVars, faceVars, imageVars, giVars, drawnVars, propVars, lineVars, moreVars>>
CallSetLineType ==
    (\E value \in {"", ByLayer, ByBlock} \cup LinetypeNames : SetLineType(value))
    /\ UNCHANGED <<leaderVars, faceVars, imageVars, giVars, drawnVars, propVars, lineVars, moreVars>>
CallSetLayerRecord ==
    (\E record \in LayerRecords : SetLayerRecord(record))
    /\ UNCHANGED <<leaderVars, faceVars, imageVars, giVars, drawnVars, propVars, lineVars, moreVars>>
CallSetLinetypeTable ==
    (\E names \in SUBSET LinetypeNames : SetLinetypeTable(names))
    /\ UNCHANGED <<leaderVars, faceVars, imageVars, giVars, drawnVars, propVars, lineVars, moreVars>>
CallSetCecolor ==
    (\E rgb \in RGBs : SetCecolor(rgb))
    /\ UNCHANGED <<leaderVars, faceVars, imageVars, giVars, drawnVars, propVars, lineVars, moreVars>>
CallRgbColor == ReadRgbColor /\ UNCHANGED <<leaderVars, faceVars, imageVars, giVars, drawnVars, propVars, lineVars, moreVars>>
CallLineStyle == ReadLineStyle /\ UNCHANGED <<leaderVars, faceVars, imageVars, giVars, drawnVars, propVars, lineVars, moreVars>>

StyleNext ==
    \/ CallSetLayer
    \/ CallSetColor
    \/ CallSetLineType
    \/ CallSetLayerRecord
    \/ CallSetLinetypeTable
    \/ CallSetCecolor
    \/ CallRgbColor
    \/ CallLineStyle

----------------------------------------------------------------------------
(* The properties trees: one row per property, with the typed property its  *)
(* accessor reads (get) and the one its accessor assigns (set)              *)

Row(name, kind, get, set) == [name |-> name, kind |-> kind, get |-> get, set |-> set]

\* AcDbEntity.getGeneralProperties (handle is not editable and has no typed
\* setter in the entity)
GeneralProperties ==
    { Row("color", "color", "color", "color"),
      Row("layer", "string", "layer", "layer"),
      Row("linetype", "linetype", "lineType", "lineType"),
      Row("linetypeScale", "number", "linetypeScale", "linetypeScale"),
      Row("lineWeight", "number", "lineWeight", "lineWeight"),
      Row("transparency", "transparency", "transparency", "transparency") }

\* AcDbCircle.properties
CircleProperties ==
    { Row("centerX", "number", "center.x", "center.x"),
      Row("centerY", "number", "center.y", "center.y"),
      Row("centerZ", "number", "center.z", "center.z"),
      Row("radius", "number", "radius", "radius"),
      Row("normalX", "number", "normal.x", "normal.x"),
      Row("normalY", "number", "normal.y", "normal.y"),
      Row("normalZ", "number", "normal.z", "normal.z") }

\* AcDbPoint.properties
PointProperties ==
    { Row("positionX", "number", "position.x", "position.x"),
      Row("positionY", "number", "position.y", "position.y"),
      Row("positionZ", "number", "position.z", "position.z") }

\* AcDbLine.properties
LineProperties ==
    { Row("startX", "number", "startPoint.x", "startPoint.x"),
      Row("startY", "number", "startPoint.y", "startPoint.y"),
      Row("startZ", "number", "startPoint.z", "startPoint.z"),
      Row("endX", "number", "endPoint.x", "endPoint.x"),
      Row("endY", "number", "endPoint.y", "endPoint.y"),
      Row("endZ", "number", "endPoint.z", "endPoint.z") }

\* AcDbText.properties
TextProperties ==
    { Row("contents", "string", "textString", "textString"),
      Row("styleName", "string", "styleName", "styleName"),
      Row("textHeight", "number", "height", "height"),
      Row("rotation", "number", "rotation", "rotation"),
      Row("widthFactor", "number", "widthFactor", "widthFactor"),
      Row("oblique", "number", "oblique", "oblique"),
      Row("positionX", "number", "position.x", "position.x"),
      Row("positionY", "number", "position.y", "position.y"),
      Row("positionZ", "number", "position.z", "position.z") }

\* AcDbEllipse.properties
EllipseProperties ==
    { Row("centerX", "number", "center.x", "center.x"),
      Row("centerY", "number", "center.y", "center.y"),
      Row("centerZ", "number", "center.z", "center.z"),
      Row("majorAxisRadius", "number", "majorAxisRadius", "center.x"),
      Row("minorAxisRadius", "number", "minorAxisRadius", "minorAxisRadius"),
      Row("startAngle", "number", "startAngle", "startAngle"),
      Row("endAngle", "number", "endAngle", "endAngle"),
      Row("normalX", "number", "normal.x", "normal.x"),
      Row("normalY", "number", "normal.y", "normal.y"),
      Row("normalZ", "number", "normal.z", "normal.z") }

\* AcDbXline.properties
XlineProperties ==
    { Row("basePointX", "number", "basePoint.x", "basePoint.x"),
      Row("basePointY", "number", "basePoint.y", "basePoint.y"),
      Row("basePointZ", "number", "basePoint.z", "basePoint.z"),
      Row("unitDirX", "number", "unitDir.x", "unitDir.x"),
      Row("unitDirY", "number", "unitDir.y", "unitDir.y"),
      Row("unitDirZ", "number", "unitDir.z", "unitDir.z") }

\* AcDbMText.properties
MTextProperties ==
    { Row("contents", "string", "contents", "contents"),
      Row("styleName", "string", "styleName", "styleName"),
      Row("attachmentPoint", "number", "attachmentPoint", "attachmentPoint"),
      Row("drawingDirection", "number", "drawingDirection", "drawingDirection"),
      Row("textHeight", "number", "height", "height"),
      Row("rotation", "number", "rotation", "rotation"),
      Row("lineSpacingFactor", "number", "lineSpacingFactor", "lineSpacingFactor"),
      Row("definedWidth", "number", "width", "width"),
      Row("directionX", "number", "direction.x", "direction.x"),
      Row("directionY", "number", "direction.y", "direction.y"),
      Row("directionZ", "number", "direction.z", "direction.z"),
      Row("locationX", "number", "location.x", "location.x"),
      Row("locationY", "number", "location.y", "location.y"),
      Row("locationZ", "number", "location.z", "location.z") }

\* AcDbRay.properties
RayProperties ==
    { Row("basePointX", "number", "basePoint.x", "basePoint.x"),
      Row("basePointY", "number", "basePoint.y", "basePoint.y"),
      Row("basePointZ", "number", "basePoint.z", "basePoint.z"),
      Row("unitDirX", "number", "unitDir.x", "unitDir.x"),
      Row("unitDirY", "number", "unitDir.y", "unitDir.y"),
      Row("unitDirZ", "number", "unitDir.z", "unitDir.z") }

\* AcDbArc.properties
ArcProperties ==
    { Row("centerX", "number", "center.x", "center.x"),
      Row("centerY", "number", "center.y", "center.y"),
      Row("centerZ", "number", "center.z", "center.z"),
      Row("radius", "number", "radius", "radius"),
      Row("startAngle", "number", "startAngle", "startAngle"),
      Row("endAngle", "number", "endAngle", "endAngle"),
      Row("normalX", "number", "normal.x", "normal.x"),
      Row("normalY", "number", "normal.y", "normal.y"),
      Row("normalZ", "number", "normal.z", "normal.z") }


OwnProperties ==
    [ Circle |-> CircleProperties, Point |-> PointProperties, Line |-> LineProperties,
      Text |-> TextProperties, Ellipse |-> EllipseProperties, Xline |-> XlineProperties,
      MText |-> MTextProperties, Ray |-> RayProperties, Arc |-> ArcProperties ]

\* properties: the general group, then the type's own groups
Properties(typeName) == GeneralProperties \cup OwnProperties[typeName]

\* the typed properties behind a type's rows
Paths(typeName) == {row.get : row \in Properties(typeName)}
                       \cup {row.set : row \in Properties(typeName)}

Transparency(alpha) == [alpha |-> alpha]

\* values a caller can hand to a property of each kind
Values(kind) ==
    CASE kind = "number" -> 0..MaxVal
      [] kind = "string" -> {"", "0", "A"}
      [] kind = "linetype" -> {"", ByLayer, ByBlock, "DASHED"}
      [] kind = "color" -> Colors
      [] kind = "transparency" -> {Transparency(a) : a \in 0..MaxVal}

\* the value of a typed property after construction
DefaultValue(path) ==
    CASE path = "color" -> DefaultColor
      [] path = "layer" -> "0"
      [] path = "lineType" -> ByLayer
      [] path \in {"linetypeScale", "lineWeight"} -> 0 - 1
      [] path = "transparency" -> Transparency(0)
      [] path \in {"textString", "contents", "styleName"} -> ""
      [] OTHER -> 0

PropCall(op, value, ret) == [op |-> op, value |-> value, ret |-> ret]

NewFields(typeName) == [path \in Paths(typeName) |-> DefaultValue(path)]

PropInit ==
    /\ edited = [type |-> "Circle", row |-> Row("radius", "number", "radius", "radius")]
    /\ fields = NewFields("Circle")
    /\ propCall = PropCall("new", 0, 0)

\* a new entity of a type is made and one row of its tree is picked
NewEntity(typeName, row) ==
    /\ edited' = [type |-> typeName, row |-> row]
    /\ fields' = NewFields(typeName)
    /\ propCall' = PropCall("new", DefaultValue(row.get), DefaultValue(row.get))

TypedStorePlain(path, value) == value

\* what the typed setter of a typed property stores for a value:
\* set lineType(value) stores value || ByLayer, every other setter the value
TypedStore(path, value) ==
    IF path = "lineType" /\ value = "" THEN ByLayer ELSE value

\* entity.<path> = value
TypedSetter(path, value) == [fields EXCEPT ![path] = TypedStore(path, value)]

\* the typed setter of the property the row shows
TypedSet(value) ==
    /\ fields' = TypedSetter(edited.row.get, value)
    /\ propCall' = PropCall("typedSet", value, value)
    /\ UNCHANGED edited

\* accessor.set(v) of the row
AccessorSet(value) ==
    /\ fields' = TypedSetter(edited.row.set, value)
    /\ propCall' = PropCall("accessorSet", value, value)
    /\ UNCHANGED edited

\* accessor.get() of the row
AccessorGet ==
    /\ propCall' = PropCall("accessorGet", propCall.value, fields[edited.row.get])
    /\ UNCHANGED <<edited, fields>>

\* The calls a property editor makes on the row it shows.
CallNewEntity ==
    (\E typeName \in DOMAIN OwnProperties :
        \E row \in Properties(typeName) : NewEntity(typeName, row))
    /\ UNCHANGED <<leaderVars, faceVars, imageVars, giVars, drawnVars, styleVars, lineVars, moreVars>>
CallTypedSet ==
    (\E value \in Values(edited.row.kind) : TypedSet(value))
    /\ UNCHANGED <<leaderVars, faceVars, imageVars, giVars, drawnVars, styleVars, lineVars, moreVars>>
CallAccessorSet ==
    (\E value \in Values(edited.row.kind) : AccessorSet(value))
    /\ UNCHANGED <<leaderVars, faceVars, imageVars, giVars, drawnVars, styleVars, lineVars, moreVars>>
CallAccessorGet ==
    AccessorGet /\ UNCHANGED <<leaderVars, faceVars, imageVars, giVars, drawnVars, styleVars, lineVars, moreVars>>

PropNext ==
    \/ CallNewEntity
    \/ CallTypedSet
    \/ CallAccessorSet
    \/ CallAccessorGet

----------------------------------------------------------------------------
(* AcDbLine: object snap points *)

\* end points of the line; even coordinates keep the midpoint on the grid
LinePoints == {Pt(2 * px, 0, 0) : px \in 0..MaxCoord}
PickPoints == {Pt(px, 1, 0) : px \in 0..MaxCoord}

\* AcDbOsnapMode; Center and Node stand for the modes the line does not handle
OsnapModes == {"EndPoint", "MidPoint", "Nearest", "Perpendicular", "Tangent",
               "Center", "Node"}

\* what the caller's array holds before the call
SnapPointsBefore == {<<>>, <<Pt(1, 1, 1)>>, <<Pt(1, 1, 1), Pt(0, 0, 0)>>}

\* AcGeLine3d: midPoint, project(point), perpPoint(point)
MidPoint(geo) ==
    Pt((geo.startPoint.x + geo.endPoint.x) \div 2,
       (geo.startPoint.y + geo.endPoint.y) \div 2,
       (geo.startPoint.z + geo.endPoint.z) \div 2)
Project(geo, point) == [project |-> point, onto |-> geo]
PerpPoint(geo, point) == [perpPoint |-> point, onto |-> geo]

LineCall(op, osnapMode, pickPoint, before) ==
    [op |-> op, osnapMode |-> osnapMode, pickPoint |-> pickPoint, before |-> before]

LineInit ==
    /\ line = [startPoint |-> Pt(0, 0, 0), endPoint |-> Pt(0, 0, 0)]
    /\ snapPoints = <<>>
    /\ lineCall = LineCall("new", "", Pt(0, 0, 0), <<>>)

SetStartPoint(value) ==
    /\ line' = [line EXCEPT !.startPoint = value]
    /\ lineCall' = LineCall("set", "", Pt(0, 0, 0), <<>>)
    /\ UNCHANGED snapPoints

SetEndPoint(value) ==
    /\ line' = [line EXCEPT !.endPoint = value]
    /\ lineCall' = LineCall("set", "", Pt(0, 0, 0), <<>>)
    /\ UNCHANGED snapPoints

PushedTangentBoth(osnapMode, pickPoint) ==
    CASE osnapMode = "EndPoint" -> <<line.startPoint, line.endPoint>>
      [] osnapMode = "MidPoint" -> <<MidPoint(line)>>
      [] osnapMode = "Nearest" -> <<Project(line, pickPoint)>>
      [] osnapMode = "Perpendicular" -> <<PerpPoint(line, pickPoint)>>
      [] osnapMode = "Tangent" -> <<line.startPoint, line.endPoint>>
      [] OTHER -> <<>>

\* the switch of subGetOsnapPoints: the points pushed, in order
Pushed(osnapMode, pickPoint) ==
    CASE osnapMode = "EndPoint" -> <<line.startPoint, line.endPoint>>
      [] osnapMode = "MidPoint" -> <<MidPoint(line)>>
      [] osnapMode = "Nearest" -> <<Project(line, pickPoint)>>
      [] osnapMode = "Perpendicular" -> <<PerpPoint(line, pickPoint)>>
      [] osnapMode = "Tangent" -> <<line.startPoint>>
      [] OTHER -> <<>>

SubGetOsnapPointsUnshift(osnapMode, pickPoint, before) ==
    /\ snapPoints' = Pushed(osnapMode, pickPoint) \o before
    /\ lineCall' = LineCall("subGetOsnapPoints", osnapMode, pickPoint, before)
    /\ UNCHANGED line

\* subGetOsnapPoints(osnapMode, pickPoint, _lastPoint, snapPoints)
SubGetOsnapPoints(osnapMode, pickPoint, before) ==
    /\ snapPoints' = before \o Pushed(osnapMode, pickPoint)
    /\ lineCall' = LineCall("subGetOsnapPoints", osnapMode, pickPoint, before)
    /\ UNCHANGED line

\* The calls a client can make on a line, with every argument it can pass.
CallSetStartPoint ==
    (\E value \in LinePoints : SetStartPoint(value))
    /\ UNCHANGED <<leaderVars, faceVars, imageVars, giVars, drawnVars, styleVars, propVars, moreVars>>
CallSetEndPoint ==
    (\E value \in LinePoints : SetEndPoint(value))
    /\ UNCHANGED <<leaderVars, faceVars, imageVars, giVars, drawnVars, styleVars, propVars, moreVars>>
CallSubGetOsnapPoints ==
    (\E osnapMode \in OsnapModes, pickPoint \in PickPoints, before \in SnapPointsBefore :
        SubGetOsnapPoints(osnapMode, pickPoint, before))
    /\ UNCHANGED <<leaderVars, faceVars, imageVars, giVars, drawnVars, styleVars, propVars, moreVars>>

LineNext ==
    \/ CallSetStartPoint
    \/ CallSetEndPoint
    \/ CallSubGetOsnapPoints

----------------------------------------------------------------------------
(* AcDbFace, AcDbTrace and the polylines: vertex lists and grip points *)

\* longest vertex list handed to a polyline
MaxPolyVerts == 2

Origin == Pt(0, 0, 0)

\* points handed to setVertexAt / setPointAt, and to the polylines
VertexPoints == {Pt(px, 0, 0) : px \in 0..MaxCoord}
PolyPoints == {Pt2(px, 0) : px \in 0..MaxCoord}
PolyVertexLists == UNION {[1..n -> PolyPoints] : n \in 0..MaxPolyVerts}
Elevations == {0, 1}

Shape(typeName, shapeVertices, elevation) ==
    [typeName |-> typeName, vertices |-> shapeVertices, elevation |-> elevation]

\* `ret` holds the points a call returned (none for `undefined`), `indices`
\* and `num` the index array and the vertex count of a face's draw
ShapeCall(op, index, point, threw, ret) ==
    [op |-> op, index |-> index, point |-> point, threw |-> threw, ret |-> ret,
     indices |-> <<>>, num |-> 0]

\* new AcDbFace(): three vertices at the origin
NewFace == Shape("Face", <<Origin, Origin, Origin>>, 0)
\* new AcDbTrace(): four vertices at the origin
NewTrace == Shape("Trace", <<Origin, Origin, Origin, Origin>>, 0)
\* new AcDbPolyline(): no vertex
NewPolyline == Shape("Polyline", <<>>, 0)
\* new AcDb2dPolyline(type, vertices, elevation)
New2dPolyline(polyVertices, elevation) == Shape("2dPolyline", polyVertices, elevation)
\* new AcDb3dPolyline(type, vertices)
New3dPolyline(polyVertices) == Shape("3dPolyline", polyVertices, 0)

ShapeInit ==
    /\ shape = NewFace
    /\ shapeCall = ShapeCall("new", 0, Origin, FALSE, <<>>)

NewShape(value) ==
    /\ shape' = value
    /\ shapeCall' = ShapeCall("new", 0, Origin, FALSE, <<>>)

\* AcDbFace.getVertexAt(index): the comparison is `index > length`, so the
\* index `length` itself reads past the array
FaceGetVertexAt(index) ==
    LET v == shape.vertices
    IN  IF index < 0 THEN <<v[1]>>
        ELSE IF index > Len(v) THEN <<v[Len(v)]>>
        ELSE IF IsDefinedAt(v, index) THEN <<v[index + 1]>>
        ELSE <<>>

\* AcDbFace.setVertexAt(index, point): the `index < 0` statement has no
\* return, so the last statement runs with the negative index and
\* `_vertices[index].copy` raises a TypeError after vertex 0 was written
FaceSetVertexAt(index, point) ==
    LET v == shape.vertices
    IN  IF index < 0
        THEN /\ shape' = [shape EXCEPT !.vertices = [v EXCEPT ![1] = point]]
             /\ shapeCall' = ShapeCall("setVertexAt", index, point, TRUE, <<>>)
        ELSE IF index >= 3
        THEN LET grown == IF Len(v) = 3 THEN Append(v, Origin) ELSE v
             IN  /\ shape' = [shape EXCEPT !.vertices = [grown EXCEPT ![4] = point]]
                 /\ shapeCall' = ShapeCall("setVertexAt", index, point, FALSE, <<>>)
        ELSE /\ shape' = [shape EXCEPT !.vertices = [v EXCEPT ![index + 1] = point]]
             /\ shapeCall' = ShapeCall("setVertexAt", index, point, FALSE, <<>>)

\* AcDbTrace.getPointAt(index)
TraceGetPointAt(index) ==
    LET v == shape.vertices
    IN  IF index < 0 THEN <<v[1]>>
        ELSE IF index > 3 THEN <<v[4]>>
        ELSE <<v[index + 1]>>

\* AcDbTrace.setPointAt(index, point): as in the face, a negative index
\* writes vertex 0 and then raises a TypeError
TraceSetPointAt(index, point) ==
    LET v == shape.vertices
    IN  IF index < 0
        THEN /\ shape' = [shape EXCEPT !.vertices = [v EXCEPT ![1] = point]]
             /\ shapeCall' = ShapeCall("setPointAt", index, point, TRUE, <<>>)
        ELSE IF index > 3
        THEN /\ shape' = [shape EXCEPT !.vertices = [v EXCEPT ![4] = point]]
             /\ shapeCall' = ShapeCall("setPointAt", index, point, FALSE, <<>>)
        ELSE /\ shape' = [shape EXCEPT !.vertices = [v EXCEPT ![index + 1] = point]]
             /\ shapeCall' = ShapeCall("setPointAt", index, point, FALSE, <<>>)

\* AcGePolyline2d.addVertexAt(index, vertex): the vertex becomes the one at
\* `index`, the later ones move up
InsertAt(s, index, e) == SubSeq(s, 1, index) \o <<e>> \o SubSeq(s, index + 1, Len(s))

\* AcDbPolyline.addVertexAt(index, pt)
AddVertexAt(index, pt) ==
    /\ shape' = [shape EXCEPT !.vertices = InsertAt(shape.vertices, index, pt)]
    /\ shapeCall' = ShapeCall("addVertexAt", index, Origin, FALSE, <<>>)

\* set elevation(value) of AcDbPolyline, AcDb2dPolyline and AcDbTrace
SetElevation(value) ==
    /\ shape' = [shape EXCEPT !.elevation = value]
    /\ shapeCall' = ShapeCall("elevation", 0, Origin, FALSE, <<>>)

\* AcDbPolyline.getPoint3dAt(index)
GetPoint3dAt(index) ==
    Pt(shape.vertices[index + 1].x, shape.vertices[index + 1].y, shape.elevation)

\* subGetGripPoints() of the five types; the 2d and the 3d polyline return
\* the empty array they start with
GripPoints ==
    CASE shape.typeName = "Face" ->
           [i \in 1..Len(shape.vertices) |-> FaceGetVertexAt(i - 1)[1]]
      [] shape.typeName = "Trace" -> [i \in 1..4 |-> TraceGetPointAt(i - 1)[1]]
      [] shape.typeName = "Polyline" ->
           [i \in 1..Len(shape.vertices) |-> GetPoint3dAt(i - 1)]
      [] OTHER -> <<>>

GetVertexAt(index) ==
    /\ shapeCall' = ShapeCall("getVertexAt", index, Origin, FALSE, FaceGetVertexAt(index))
    /\ UNCHANGED shape

GetPointAt(index) ==
    /\ shapeCall' = ShapeCall("getPointAt", index, Origin, FALSE, TraceGetPointAt(index))
    /\ UNCHANGED shape

SubGetGripPoints ==
    /\ shapeCall' = ShapeCall("subGetGripPoints", 0, Origin, FALSE, GripPoints)
    /\ UNCHANGED shape

\* the index array AcDbFace.draw fills: two entries per vertex, which stay 0
\* for an invisible edge and are i and (i + 1) % 4 for a visible one
LineSegmentIndices ==
    [k \in 1..(2 * Len(shape.vertices)) |->
        LET i == (k - 1) \div 2
        IN  IF BitAnd(edgeInvisibilities, Pow2(i)) = 0
            THEN IF k % 2 = 1 THEN i ELSE (i + 1) % 4
            ELSE 0]

\* AcDbFace.draw(renderer)
FaceDraw ==
    /\ EntityDraw("Face")
    /\ shapeCall' = [ShapeCall("draw", 0, Origin, FALSE, <<>>)
                        EXCEPT !.indices = LineSegmentIndices,
                               !.num = Len(shape.vertices)]
    /\ UNCHANGED shape

\* The calls a grip editor makes on the entity it holds.
CallNewShape ==
    (\E value \in {NewFace, NewTrace, NewPolyline}
                    \cup {New2dPolyline(v, e) : v \in PolyVertexLists, e \in Elevations}
                    \cup {New3dPolyline(v) : v \in PolyVertexLists} : NewShape(value))
    /\ UNCHANGED <<leaderVars, faceVars, imageVars, giVars, drawnVars, styleVars, propVars,
                   lineVars, rayVars, backgroundVars, selected>>
CallFaceSetVertexAt ==
    /\ shape.typeName = "Face"
    /\ \E index \in Indices, point \in VertexPoints : FaceSetVertexAt(index, point)
    /\ UNCHANGED <<leaderVars, faceVars, imageVars, giVars, drawnVars, styleVars, propVars,
                   lineVars, rayVars, backgroundVars, selected>>
CallGetVertexAt ==
    /\ shape.typeName = "Face"
    /\ \E index \in Indices : GetVertexAt(index)
    /\ UNCHANGED <<leaderVars, faceVars, imageVars, giVars, drawnVars, styleVars, propVars,
                   lineVars, rayVars, backgroundVars, selected>>
CallTraceSetPointAt ==
    /\ shape.typeName = "Trace"
    /\ \E index \in Indices, point \in VertexPoints : TraceSetPointAt(index, point)
    /\ UNCHANGED <<leaderVars, faceVars, imageVars, giVars, drawnVars, styleVars, propVars,
                   lineVars, rayVars, backgroundVars, selected>>
CallGetPointAt ==
    /\ shape.typeName = "Trace"
    /\ \E index \in Indices : GetPointAt(index)
    /\ UNCHANGED <<leaderVars, faceVars, imageVars, giVars, drawnVars, styleVars, propVars,
                   lineVars, rayVars, backgroundVars, selected>>
CallAddVertexAt ==
    /\ shape.typeName = "Polyline"
    /\ Len(shape.vertices) < MaxPolyVerts
    /\ \E index \in 0..Len(shape.vertices), pt \in PolyPoints : AddVertexAt(index, pt)
    /\ UNCHANGED <<leaderVars, faceVars, imageVars, giVars, drawnVars, styleVars, propVars,
                   lineVars, rayVars, backgroundVars, selected>>
CallSetElevation ==
    /\ shape.typeName \in {"Polyline", "2dPolyline", "Trace"}
    /\ \E value \in Elevations : SetElevation(value)
    /\ UNCHANGED <<leaderVars, faceVars, imageVars, giVars, drawnVars, styleVars, propVars,
                   lineVars, rayVars, backgroundVars, selected>>
CallSubGetGripPoints ==
    /\ SubGetGripPoints
    /\ UNCHANGED <<leaderVars, faceVars, imageVars, giVars, drawnVars, styleVars, propVars,
                   lineVars, rayVars, backgroundVars, selected>>
CallFaceDraw ==
    /\ shape.typeName = "Face"
    /\ FaceDraw
    /\ UNCHANGED <<leaderVars, faceVars, imageVars, drawnVars, styleVars, propVars,
                   lineVars, rayVars, backgroundVars, selected>>

\* grip editing of the vertex-list entities
GripNext ==
    \/ CallNewShape
    \/ CallFaceSetVertexAt
    \/ CallGetVertexAt
    \/ CallTraceSetPointAt
    \/ CallGetPointAt
    \/ CallAddVertexAt
    \/ CallSetElevation
    \/ CallSubGetGripPoints

\* a face, its edge mask and its draw
FaceDrawNext ==
    \/ CallNewShape
    \/ CallFaceSetVertexAt
    \/ CallSetEdgeInvisibilities
    \/ CallFaceDraw

----------------------------------------------------------------------------
(* AcDbRay and AcDbXline *)

\* the multipliers of the direction in draw and in geometricExtents
DrawLength == 1000000
ExtentsLength == 10

RayBasePoints == {Pt(px, py, 0) : px \in 0..MaxCoord, py \in 0..MaxCoord}
RayDirections == {Pt(dx, dy, 0) : dx \in (0 - 1)..1, dy \in (0 - 1)..1}

\* AcGeVector3d: clone().multiplyScalar(s).add(p)
ScaledFrom(v, s, p) == Pt(v.x * s + p.x, v.y * s + p.y, v.z * s + p.z)

SetMax(S) == CHOOSE m \in S : \A n \in S : m >= n

\* new AcGeBox3d() expanded by each of the points
BoxOfPoints(points) ==
    [min |-> Pt(SetMin({points[i].x : i \in 1..Len(points)}),
                SetMin({points[i].y : i \in 1..Len(points)}),
                SetMin({points[i].z : i \in 1..Len(points)})),
     max |-> Pt(SetMax({points[i].x : i \in 1..Len(points)}),
                SetMax({points[i].y : i \in 1..Len(points)}),
                SetMax({points[i].z : i \in 1..Len(points)}))]

NoBox == [min |-> Origin, max |-> Origin]

RayCall(op, points, box) == [op |-> op, points |-> points, box |-> box]

\* new AcDbRay(), new AcDbXline(): base point and direction are zero
NewRay(typeName) ==
    /\ ray' = [typeName |-> typeName, basePoint |-> Origin, unitDir |-> Origin]
    /\ rayCall' = RayCall("new", <<>>, NoBox)

RayInit ==
    /\ ray = [typeName |-> "Ray", basePoint |-> Origin, unitDir |-> Origin]
    /\ rayCall = RayCall("new", <<>>, NoBox)

SetBasePoint(value) ==
    /\ ray' = [ray EXCEPT !.basePoint = value]
    /\ rayCall' = RayCall("set", <<>>, NoBox)

SetUnitDir(value) ==
    /\ ray' = [ray EXCEPT !.unitDir = value]
    /\ rayCall' = RayCall("set", <<>>, NoBox)

\* get geometricExtents() of both types
RayExtents ==
    BoxOfPoints(<< ScaledFrom(ray.unitDir, ExtentsLength, ray.basePoint),
                   ScaledFrom(ray.unitDir, 0 - ExtentsLength, ray.basePoint) >>)

RayDrawPointsShort ==
    IF ray.typeName = "Ray"
    THEN << ray.basePoint, ScaledFrom(ray.unitDir, ExtentsLength, ray.basePoint) >>
    ELSE << ScaledFrom(ray.unitDir, 0 - ExtentsLength, ray.basePoint),
            ScaledFrom(ray.unitDir, ExtentsLength, ray.basePoint) >>

\* the points AcDbRay.draw and AcDbXline.draw hand to renderer.lines
RayDrawPoints ==
    IF ray.typeName = "Ray"
    THEN << ray.basePoint, ScaledFrom(ray.unitDir, DrawLength, ray.basePoint) >>
    ELSE << ScaledFrom(ray.unitDir, 0 - DrawLength, ray.basePoint),
            ScaledFrom(ray.unitDir, DrawLength, ray.basePoint) >>

RayGeometricExtents ==
    /\ rayCall' = RayCall("geometricExtents", <<>>, RayExtents)
    /\ UNCHANGED ray

RayDraw ==
    /\ EntityDraw(ray.typeName)
    /\ rayCall' = RayCall("draw", RayDrawPoints, NoBox)
    /\ UNCHANGED ray

\* The calls a client can make on a ray or a construction line.
CallNewRay ==
    (\E typeName \in {"Ray", "Xline"} : NewRay(typeName))
    /\ UNCHANGED <<leaderVars, faceVars, imageVars, giVars, drawnVars, styleVars, propVars,
                   lineVars, vertexVars, backgroundVars, selected>>
CallSetBasePoint ==
    (\E value \in RayBasePoints : SetBasePoint(value))
    /\ UNCHANGED <<leaderVars, faceVars, imageVars, giVars, drawnVars, styleVars, propVars,
                   lineVars, vertexVars, backgroundVars, selected>>
CallSetUnitDir ==
    (\E value \in RayDirections : SetUnitDir(value))
    /\ UNCHANGED <<leaderVars, faceVars, imageVars, giVars, drawnVars, styleVars, propVars,
                   lineVars, vertexVars, backgroundVars, selected>>
CallRayGeometricExtents ==
    /\ RayGeometricExtents
    /\ UNCHANGED <<leaderVars, faceVars, imageVars, giVars, drawnVars, styleVars, propVars,
                   lineVars, vertexVars, backgroundVars, selected>>
CallRayDraw ==
    /\ RayDraw
    /\ UNCHANGED <<leaderVars, faceVars, imageVars, drawnVars, styleVars, propVars,
                   lineVars, vertexVars, backgroundVars, selected>>

RayNext ==
    \/ CallNewRay
    \/ CallSetBasePoint
    \/ CallSetUnitDir
    \/ CallRayGeometricExtents
    \/ CallRayDraw

----------------------------------------------------------------------------
(* AcDbMText: background fill *)

\* 0xc8c8c8, the colour the constructor and the backgroundFill setter assign
DefaultBackgroundFillColor == 13158600

BackgroundFillColors == {DefaultBackgroundFillColor} \cup 1..MaxRgb

\* new AcDbMText()
BackgroundInit ==
    /\ backgroundFill = FALSE
    /\ backgroundFillColor = DefaultBackgroundFillColor
    /\ mtextCall = [op |-> "new"]

\* set backgroundFill(value)
SetBackgroundFill(value) ==
    /\ backgroundFill' = value
    /\ backgroundFillColor' = DefaultBackgroundFillColor
    /\ mtextCall' = [op |-> "backgroundFill"]

\* set backgroundFillColor(value)
SetBackgroundFillColor(value) ==
    /\ backgroundFillColor' = value
    /\ mtextCall' = [op |-> "backgroundFillColor"]
    /\ UNCHANGED backgroundFill

\* The calls a client can make on an mtext's background.
CallSetBackgroundFill ==
    (\E value \in BOOLEAN : SetBackgroundFill(value))
    /\ UNCHANGED <<leaderVars, faceVars, imageVars, giVars, drawnVars, styleVars, propVars,
                   lineVars, vertexVars, rayVars, selected>>
CallSetBackgroundFillColor ==
    (\E value \in BackgroundFillColors : SetBackgroundFillColor(value))
    /\ UNCHANGED <<leaderVars, faceVars, imageVars, giVars, drawnVars, styleVars, propVars,
                   lineVars, vertexVars, rayVars, selected>>

\* an mtext: its background, its style and its draw
MTextNext ==
    \/ CallSetBackgroundFill
    \/ CallSetBackgroundFillColor
    \/ CallSetMTextStyleName
    \/ CallSetTextStyleTable
    \/ CallMTextDraw

----------------------------------------------------------------------------
(* The editor: the queries on the entity it holds, and the calls that change *)
(* that entity between them                                                  *)

Selectable == {"Leader", "RasterImage", "Line", "Entity", "Properties", "Shape", "Ray"}

QueryLeader ==
    /\ selected = "Leader"
    /\ (CallSetIsSplined \/ CallAppendVertex \/ CallLeaderGeometricExtents)
QueryImage ==
    /\ selected = "RasterImage"
    /\ \/ CallSetPosition \/ CallSetWidth \/ CallSetRotation
       \/ CallSetIsClipped \/ CallSetClipBoundary
       \/ CallImageSubGetGripPoints \/ CallImageGeometricExtents
QueryLine ==
    /\ selected = "Line"
    /\ (CallSetStartPoint \/ CallSetEndPoint \/ CallSubGetOsnapPoints)
QueryEntity ==
    /\ selected = "Entity"
    /\ \/ CallSetLayer \/ CallSetColor \/ CallSetLineType
       \/ CallSetLayerRecord \/ CallRgbColor \/ CallLineStyle
QueryProperties ==
    /\ selected = "Properties"
    /\ (CallNewEntity \/ CallTypedSet \/ CallAccessorGet)
QueryShape ==
    /\ selected = "Shape"
    /\ (CallNewShape \/ CallSetEdgeInvisibilities \/ CallSubGetGripPoints)
QueryRay ==
    /\ selected = "Ray"
    /\ (CallNewRay \/ CallSetBasePoint \/ CallSetUnitDir \/ CallRayGeometricExtents)

QueryNext ==
    \/ QueryLeader
    \/ QueryImage
    \/ QueryLine
    \/ QueryEntity
    \/ QueryProperties
    \/ QueryShape
    \/ QueryRay

----------------------------------------------------------------------------
(* Specifications *)

\* every entity as its constructor leaves it
Constructed ==
    /\ LeaderInit /\ FaceInit /\ ImageInit /\ GiInit /\ DrawnInit /\ EntityInit
    /\ PropInit /\ LineInit /\ ShapeInit /\ RayInit /\ BackgroundInit

Init == Constructed /\ selected = "none"

\* an editor that holds one entity and queries it
QueryInit == Constructed /\ selected \in Selectable

SpecLeader == Init /\ [][LeaderNext]_vars
SpecFace == Init /\ [][FaceNext]_vars
SpecImage == Init /\ [][ImageNext]_vars
SpecFill == Init /\ [][FillNext]_vars
SpecDraw == Init /\ [][DrawNext]_vars
SpecStyle == Init /\ [][StyleNext]_vars
SpecProps == Init /\ [][PropNext]_vars
SpecLine == Init /\ [][LineNext]_vars
SpecGrip == Init /\ [][GripNext]_vars
SpecFaceDraw == Init /\ [][FaceDrawNext]_vars
SpecRay == Init /\ [][RayNext]_vars
SpecViewport == Init /\ [][ViewportNext]_vars
SpecMText == Init /\ [][MTextNext]_vars
SpecImageExtents == Init /\ [][ImageExtentsNext]_vars
SpecQuery == QueryInit /\ [][QueryNext]_vars

----------------------------------------------------------------------------
(* Properties of the leader *)

IsRead(op) == op \in {"geometricExtents", "draw"}

\* C1: whenever a cached spline exists and the dirty flag is false, the
\* cached spline was built from exactly the current vertex list.
C1_CleanCacheMatchesVertices ==
    (~splineGeo.isNull /\ ~updated) => splineGeo.fitPoints = vertices

\* a clean cache over three vertices, i.e. one rebuilt after the third append
C1_Witness ==
    /\ ~splineGeo.isNull
    /\ ~updated
    /\ Len(vertices) = 3
    /\ leaderCall.op = "geometricExtents"
    /\ leaderCall.rebuilds = 1

\* C2: on a splined leader with at least 2 vertices a read (geometricExtents
\* or draw) of a dirty cache builds the spline from the current vertices
\* exactly once and clears the dirty flag, and a read that directly follows
\* a read builds nothing and keeps the cached spline.
C2_OneRebuildPerMutation ==
    [][ (IsRead(leaderCall'.op) /\ isSplined /\ Len(vertices) >= 2) =>
          /\ updated =>
               /\ leaderCall'.rebuilds = 1
               /\ ~updated'
               /\ splineGeo' = AcGeSpline3d(vertices)
          /\ IsRead(leaderCall.op) =>
               /\ leaderCall'.rebuilds = 0
               /\ splineGeo' = splineGeo
               /\ ~updated' ]_vars

\* the second of two consecutive reads on a splined leader of three vertices
C2_Witness ==
    /\ leaderCall.op = "geometricExtents"
    /\ leaderCall.src = "spline"
    /\ leaderCall.rebuilds = 0
    /\ isSplined
    /\ Len(vertices) = 3
    /\ splineGeo.fitPoints = vertices

\* C3: setVertexAt(index, p) with 0 <= index < numVertices returns without
\* throwing, makes vertex index equal to p, leaves the other vertices and
\* numVertices unchanged and marks the cache dirty.
C3_SetVertexAtInRange ==
    [][ (leaderCall'.op = "setVertexAt" /\ IsDefinedAt(vertices, leaderCall'.index)) =>
          /\ ~leaderCall'.threw
          /\ vertices' = [vertices EXCEPT ![leaderCall'.index + 1] = leaderCall'.point]
          /\ updated' ]_vars

\* C4: setVertexAt and vertexAt with an index outside 0 .. numVertices-1
\* throw, and leave the vertex list, the dirty flag and the cached spline
\* as they were.
C4_OutOfRangeThrowsNoChange ==
    [][ ( /\ leaderCall'.op \in {"setVertexAt", "vertexAt"}
          /\ ~IsDefinedAt(vertices, leaderCall'.index) ) =>
          /\ leaderCall'.threw
          /\ UNCHANGED <<vertices, updated, splineGeo>> ]_vars

\* setVertexAt one past the end of a leader whose cache is clean
C4_Witness ==
    /\ leaderCall.op = "setVertexAt"
    /\ leaderCall.index = Len(vertices)
    /\ leaderCall.threw
    /\ Len(vertices) >= 2
    /\ ~splineGeo.isNull
    /\ ~updated

\* C5: vertexAt(index) with 0 <= index < numVertices returns the vertex
\* stored at that position and does not throw.
C5_VertexAtInRangeReturns ==
    (leaderCall.op = "vertexAt" /\ IsDefinedAt(vertices, leaderCall.index)) =>
        /\ ~leaderCall.threw
        /\ leaderCall.ret = <<vertices[leaderCall.index + 1]>>

----------------------------------------------------------------------------
(* Properties of the face *)

\* bit i of the mask m
BitSet(m, i) == (m \div Pow2(i)) % 2 = 1

C7_EdgeIndexOutOfRangeThrows ==
    [][ ( /\ faceCall'.op \in {"isEdgeVisibleAt", "makeEdgeInvisibleAt"}
          /\ (faceCall'.index < 0 \/ faceCall'.index > 3) ) =>
          /\ faceCall'.threw
          /\ edgeInvisibilities' = edgeInvisibilities ]_vars

\* makeEdgeInvisibleAt(4) rejected on a mask whose edge 3 is visible
C7_Witness ==
    /\ faceCall.op = "makeEdgeInvisibleAt"
    /\ faceCall.index = 4
    /\ faceCall.threw
    /\ edgeInvisibilities = 5

----------------------------------------------------------------------------
(* Properties of the raster image *)

Plus(p, dx, dy) == Pt(p.x + dx, p.y + dy, p.z)

\* the point c turned by `angle` about `pivot` in the plane, z kept
TurnedAbout(c, pivot, angle) ==
    LET r == RotateAround(Pt2(c.x, c.y), Pt2(pivot.x, pivot.y), angle)
    IN  Pt(r.x, r.y, c.z)

\* C8: for an unclipped image with a nonzero rotation (positive or
\* negative) the path has 5 points: points 0 and 4 are the position, point
\* 1 is position + (width, 0), and points 2 and 3 are the corners
\* position + (width, height) and position + (0, height) rotated about
\* point 1.
C8_NonzeroRotationAboutPoint1 ==
    (imageCall.op = "subGetGripPoints" /\ ~isClipped /\ rotation # 0) =>
        LET pivot == Plus(position, width, 0)
        IN  imageCall.ret =
              << position,
                 pivot,
                 TurnedAbout(Plus(position, width, height), pivot, rotation),
                 TurnedAbout(Plus(position, 0, height), pivot, rotation),
                 position >>

\* C9: not clipped, or clipped with fewer than 4 clip points, and rotation
\* 0: the path is the closed rectangle
\* [p, p + (w,0,0), p + (w,h,0), p + (0,h,0), p].
C9_UnrotatedRectangle ==
    ( /\ imageCall.op = "subGetGripPoints"
      /\ (~isClipped \/ Len(clipBoundary) < 4)
      /\ rotation = 0 ) =>
        imageCall.ret =
          << position,
             Plus(position, width, 0),
             Plus(position, width, height),
             Plus(position, 0, height),
             position >>

\* a clipped image with only 3 clip points still yields the rectangle
C9_Witness ==
    /\ imageCall.op = "subGetGripPoints"
    /\ isClipped
    /\ Len(clipBoundary) = 3
    /\ rotation = 0
    /\ width = 1
    /\ height = 1
    /\ Len(imageCall.ret) = 5

\* C10: clipped with at least 4 clip points: one point per clip vertex, in
\* order, (x, y) mapped to (x*width + tx, y*height + ty, position.z) with
\* tx = position.x - minX*width and ty = position.y - minY*height; for
\* width, height >= 0 the minimum corner of the result is the position.
C10_ClipMapping ==
    ( /\ imageCall.op = "subGetGripPoints"
      /\ isClipped
      /\ Len(clipBoundary) >= 4 ) =>
        LET n == Len(clipBoundary)
            minX == SetMin({clipBoundary[i].x : i \in 1..n})
            minY == SetMin({clipBoundary[i].y : i \in 1..n})
            tx == position.x - minX * width
            ty == position.y - minY * height
            ret == imageCall.ret
        IN  /\ Len(ret) = n
            /\ \A i \in 1..n :
                 ret[i] = Pt(clipBoundary[i].x * width + tx,
                             clipBoundary[i].y * height + ty, position.z)
            /\ (width >= 0 /\ height >= 0) =>
                 /\ SetMin({ret[i].x : i \in 1..n}) = position.x
                 /\ SetMin({ret[i].y : i \in 1..n}) = position.y

\* a 5-point clip polygon whose minimum corner is not the origin, on an
\* image of positive size placed away from the origin
C10_Witness ==
    /\ imageCall.op = "subGetGripPoints"
    /\ isClipped
    /\ Len(clipBoundary) = 5
    /\ BoxMin(clipBoundary) = Pt2(1, 0)
    /\ width = 1
    /\ height = 1
    /\ position = Pt(1, 1, 1)

----------------------------------------------------------------------------
(* Properties of draw *)

PrimitiveCalls(log) == SelectSeq(log, LAMBDA e : e.call # "subEntityTraits")

\* C11: after Wipeout.draw the renderer has received exactly one primitive
\* call, an area call for the image's boundary path, and the trait context
\* it was issued under has fillType set with solidFill = true, whatever was
\* drawn on the renderer before.
C11_WipeoutAreaIsSolid ==
    giCall.entity = "Wipeout" =>
        /\ ~giCall.threw
        /\ PrimitiveCalls(giCall.log) = <<Primitive("area", BoundaryPath, "")>>
        /\ fillType = FillType(TRUE)

----------------------------------------------------------------------------
(* Properties of style resolution *)

\* the database's current entity colour as an RGB value
DefaultRgb == IF database.cecolor.RGB # NullRGB THEN database.cecolor.RGB ELSE White

HasRgb(record) == record.exists /\ record.color # NullColor /\ record.color.RGB # NullRGB

\* C12: rgbColor always returns an RGB value: the entity colour's RGB when
\* the colour is explicit and carries one; for ByLayer the RGB of the
\* entity's layer when that layer is in the layer table with a colour that
\* carries one, and the database default otherwise (a missing layer
\* included); for ByBlock the database default; and 0xFFFFFF whenever the
\* colour resolved to carries no RGB.
C12_RgbColorThreeWay ==
    entityCall.op = "rgbColor" =>
        LET color == entity.color
            layer == database.layerTable[entity.layer]
        IN  /\ entityCall.rgb # NullRGB
            /\ (color.method = "ByColor" /\ color.RGB # NullRGB) =>
                  entityCall.rgb = color.RGB
            /\ color.method = ByLayer =>
                  entityCall.rgb = IF HasRgb(layer) THEN layer.color.RGB ELSE DefaultRgb
            /\ color.method = ByBlock => entityCall.rgb = DefaultRgb
            /\ (color.method = "ByColor" /\ color.RGB = NullRGB) =>
                  entityCall.rgb = DefaultRgb

\* a ByLayer entity on a layer that is not in the layer table resolves to
\* the database default
C12_Witness ==
    /\ entityCall.op = "rgbColor"
    /\ entity.color.method = ByLayer
    /\ entity.layer = "A"
    /\ database.cecolor.RGB = 2
    /\ entityCall.rgb = 2

\* C13: lineStyle resolves lineType ByLayer on a layer that has a linetype
\* to type 'ByLayer' with the layer's linetype name, ByBlock to type
\* 'ByBlock' with the default linetype name, any other value to type
\* 'UserSpecified' with that value as the name; and when the resolved name
\* is not in the linetype table the result is the placeholder record.
C13_LineStyleResolution ==
    entityCall.op = "lineStyle" =>
        LET layer == database.layerTable[entity.layer]
            style == entityCall.style
        IN  /\ (entity.lineType = ByLayer /\ layer.exists /\ layer.linetype # "") =>
                  (style.type = "ByLayer" /\ style.name = layer.linetype)
            /\ entity.lineType = ByBlock =>
                  (style.type = "ByBlock" /\ style.name = DEFAULT_LINE_TYPE)
            /\ entity.lineType \notin {ByLayer, ByBlock} =>
                  (style.type = "UserSpecified" /\ style.name = entity.lineType)
            /\ style.name \notin database.linetypeTable =>
                  style = [type |-> style.type, name |-> style.name, standardFlag |-> 0,
                           description |-> "", totalPatternLength |-> 0]

\* a ByBlock entity whose default linetype is not in the linetype table
C13_Witness ==
    /\ entityCall.op = "lineStyle"
    /\ entity.lineType = ByBlock
    /\ database.linetypeTable = {"DASHED"}
    /\ entityCall.style.type = "ByBlock"
    /\ entityCall.style.totalPatternLength = 0

AtDefaults == entity = [layer |-> "0", color |-> DefaultColor, lineType |-> ByLayer]

\* C14 (as stated): for an entity at its defaults rgbColor equals the
\* database default colour and lineStyle.type is 'ByLayer', whatever the
\* layer table holds.
C14_DefaultsIgnoreLayerTable ==
    AtDefaults =>
        /\ entityCall.op = "rgbColor" => entityCall.rgb = DefaultRgb
        /\ entityCall.op = "lineStyle" => entityCall.style.type = "ByLayer"

\* C14 (amended): for an entity at its defaults rgbColor is the RGB of layer
\* '0' when that layer is in the layer table with a colour that carries one
\* and the database default otherwise, and lineStyle.type is 'ByLayer' when
\* layer '0' is in the layer table with a linetype and 'UserSpecified' (with
\* the default linetype name) otherwise.
C14_DefaultsFollowLayerZero ==
    AtDefaults =>
        LET layer == database.layerTable["0"]
        IN  /\ entityCall.op = "rgbColor" =>
                 entityCall.rgb = IF HasRgb(layer) THEN layer.color.RGB ELSE DefaultRgb
            /\ entityCall.op = "lineStyle" =>
                 IF layer.exists /\ layer.linetype # ""
                 THEN entityCall.style.type = "ByLayer"
                 ELSE /\ entityCall.style.type = "UserSpecified"
                      /\ entityCall.style.name = DEFAULT_LINE_TYPE

\* a default entity whose layer '0' is missing from the layer table
C14_Witness ==
    /\ AtDefaults
    /\ ~database.layerTable["0"].exists
    /\ entityCall.op = "lineStyle"
    /\ entityCall.style.type = "UserSpecified"

----------------------------------------------------------------------------
(* Properties of the properties trees *)

\* C15: accessor.set(v) of a row leaves the entity in the state that
\* assigning v through the typed setter of the row's property would have
\* produced: that property holds what its setter stores for v and no other
\* property has changed.
C15_AccessorSetIsTypedSet ==
    [][ propCall'.op = "accessorSet" =>
          fields' = TypedSetter(edited.row.get, propCall'.value) ]_vars

----------------------------------------------------------------------------
(* Properties of the line's object snap *)

Appended == Len(snapPoints) - Len(lineCall.before)

\* C17 (as stated): one subGetOsnapPoints call appends zero or one point to
\* the caller's sequence, whatever the mode.
C17_AtMostOnePush ==
    lineCall.op = "subGetOsnapPoints" => Appended \in {0, 1}

\* C17 (amended): one subGetOsnapPoints call returns normally and appends
\* exactly two points for EndPoint, exactly one for MidPoint, Nearest,
\* Perpendicular and Tangent, and none for any other mode.
C17_PushesPerMode ==
    lineCall.op = "subGetOsnapPoints" =>
        Appended = CASE lineCall.osnapMode = "EndPoint" -> 2
                     [] lineCall.osnapMode \in {"MidPoint", "Nearest", "Perpendicular",
                                                "Tangent"} -> 1
                     [] OTHER -> 0

\* an EndPoint query on a sequence that already held a point
C17_Witness ==
    /\ lineCall.op = "subGetOsnapPoints"
    /\ lineCall.osnapMode = "EndPoint"
    /\ Len(lineCall.before) = 1
    /\ Len(snapPoints) = 3

\* C18: subGetOsnapPoints keeps what the caller's sequence held, in place,
\* and appends by mode: EndPoint the start point then the end point,
\* MidPoint the midpoint, Nearest the projection of the pick point,
\* Perpendicular the perpendicular foot of the pick point, Tangent the start
\* point, any other mode nothing; the line's end points do not change.
C18_AppendsByMode ==
    [][ lineCall'.op = "subGetOsnapPoints" =>
          LET mode == lineCall'.osnapMode
              pick == lineCall'.pickPoint
              n == Len(lineCall'.before)
              added == SubSeq(snapPoints', n + 1, Len(snapPoints'))
          IN  /\ line' = line
              /\ SubSeq(snapPoints', 1, n) = lineCall'.before
              /\ mode = "EndPoint" => added = <<line.startPoint, line.endPoint>>
              /\ mode = "MidPoint" => added = <<MidPoint(line)>>
              /\ mode = "Nearest" => added = <<Project(line, pick)>>
              /\ mode = "Perpendicular" => added = <<PerpPoint(line, pick)>>
              /\ mode = "Tangent" => added = <<line.startPoint>>
              /\ mode \notin {"EndPoint", "MidPoint", "Nearest", "Perpendicular",
                              "Tangent"} => added = <<>> ]_vars

\* a Tangent query on a line with distinct end points, appended after two
\* points the caller already had
C18_Witness ==
    /\ lineCall.op = "subGetOsnapPoints"
    /\ lineCall.osnapMode = "Tangent"
    /\ line.startPoint # line.endPoint
    /\ Len(lineCall.before) = 2
    /\ snapPoints = lineCall.before \o <<line.startPoint>>

----------------------------------------------------------------------------
(* Properties of every draw *)

\* the position of the first primitive call in a log, or one past its end
RECURSIVE FirstPrimitive(_, _)
FirstPrimitive(log, i) ==
    IF i > Len(log) \/ log[i].call # "subEntityTraits" THEN i
    ELSE FirstPrimitive(log, i + 1)

WrittenBefore(log, k) == UNION {log[i].written : i \in 1..(k - 1)}

\* C19: every draw returns having first written the entity traits
\* (rgbColor, color, lineTypeScale, lineWeight, transparency, layer) to
\* renderer.subEntityTraits and then made exactly one primitive call, none
\* of them before the trait write.
C19_TraitsThenOnePrimitive ==
    giCall.entity # "none" =>
        LET k == FirstPrimitive(giCall.log, 1)
        IN  /\ ~giCall.threw
            /\ k > 1
            /\ EntityTraits \subseteq WrittenBefore(giCall.log, k)
            /\ Len(PrimitiveCalls(giCall.log)) = 1

\* C20: a draw of a text or an mtext returns normally whatever the text
\* style table holds: it writes the entity traits and calls renderer.mtext
\* with the style named by styleName when the table has it, else with
\* 'STANDARD', else with 'Standard'.
C20_MissingStyleFallsBack ==
    [][ (giCall' # giCall /\ giCall'.entity \in {"Text", "MText"}) =>
          LET styleName == IF giCall'.entity = "Text" THEN text.styleName
                           ELSE mtext.styleName
              log == giCall'.log
          IN  /\ ~giCall'.threw
              /\ Len(log) = 2
              /\ log[1] = AttachToEntityTraits
              /\ log[2].call = "mtext"
              /\ styleName \in textStyleTable => log[2].style = styleName
              /\ (styleName \notin textStyleTable /\ "STANDARD" \in textStyleTable) =>
                    log[2].style = "STANDARD"
              /\ (styleName \notin textStyleTable /\ "STANDARD" \notin textStyleTable
                    /\ "Standard" \in textStyleTable) => log[2].style = "Standard" ]_vars

----------------------------------------------------------------------------
(* Properties of the vertex-list entities *)

\* the stored vertices of the entity as 3D points, in index order
StoredVertices ==
    IF shape.typeName \in {"Face", "Trace"} THEN shape.vertices
    ELSE [i \in 1..Len(shape.vertices) |->
            Pt(shape.vertices[i].x, shape.vertices[i].y, shape.elevation)]

\* C21: subGetGripPoints returns the entity's vertices in index order: four
\* vertices for a Trace and for a Face, whatever was set before, and every
\* stored vertex for a Polyline, a 2dPolyline and a 3dPolyline.
C21_GripPointsAreVertices ==
    shapeCall.op = "subGetGripPoints" =>
        /\ shapeCall.ret = StoredVertices
        /\ shape.typeName \in {"Face", "Trace"} => Len(shapeCall.ret) = 4

Clamp(index, last) == IF index < 0 THEN 0 ELSE IF index > last THEN last ELSE index

\* C25: getVertexAt / getPointAt and setVertexAt / setPointAt take every
\* integer index without throwing; a read returns the existing vertex at the
\* index clamped to the valid range, a write sets the vertex at the clamped
\* index to the point and changes no other vertex.
C25_IndexedAccessClamps ==
    [][ /\ shapeCall'.op \in {"getVertexAt", "getPointAt"} =>
            /\ ~shapeCall'.threw
            /\ shapeCall'.ret =
                 <<shape.vertices[Clamp(shapeCall'.index, Len(shape.vertices) - 1) + 1]>>
        /\ shapeCall'.op \in {"setVertexAt", "setPointAt"} =>
            LET k == Clamp(shapeCall'.index, 3) + 1
            IN  /\ ~shapeCall'.threw
                /\ k <= Len(shape'.vertices)
                /\ shape'.vertices[k] = shapeCall'.point
                /\ \A j \in 1..Len(shape.vertices) :
                      j # k => shape'.vertices[j] = shape.vertices[j] ]_vars

\* C29: every index Face.draw hands to renderer.lineSegments is smaller than
\* the number of vertices written to the buffer, for three and for four
\* vertices and every edge mask, and the draw does not throw.
C29_FaceIndicesInBuffer ==
    shapeCall.op = "draw" =>
        /\ ~shapeCall.threw
        /\ \A k \in 1..Len(shapeCall.indices) : shapeCall.indices[k] < shapeCall.num

----------------------------------------------------------------------------
(* Properties of the ray and the construction line *)

Abs(n) == IF n < 0 THEN 0 - n ELSE n

InBox(p, box) ==
    /\ box.min.x <= p.x /\ p.x <= box.max.x
    /\ box.min.y <= p.y /\ p.y <= box.max.y
    /\ box.min.z <= p.z /\ p.z <= box.max.z

\* C23: Ray.draw hands renderer.lines the two points basePoint and
\* basePoint + 1,000,000 * unitDir, Xline.draw the two points
\* basePoint -/+ 1,000,000 * unitDir; geometricExtents of both is the box of
\* basePoint +/- 10 * unitDir; so with a non-zero direction the drawn segment
\* is not inside geometricExtents.
C23_DrawnBeyondExtents ==
    LET b == ray.basePoint
        d == ray.unitDir
        far == Pt(b.x + 1000000 * d.x, b.y + 1000000 * d.y, b.z + 1000000 * d.z)
        back == Pt(b.x - 1000000 * d.x, b.y - 1000000 * d.y, b.z - 1000000 * d.z)
    IN  /\ rayCall.op = "draw" =>
            /\ rayCall.points = IF ray.typeName = "Ray" THEN <<b, far>> ELSE <<back, far>>
            /\ d # Origin => \E i \in 1..2 : ~InBox(rayCall.points[i], RayExtents)
        /\ rayCall.op = "geometricExtents" =>
            /\ rayCall.box.min = Pt(b.x - 10 * Abs(d.x), b.y - 10 * Abs(d.y), b.z - 10 * Abs(d.z))
            /\ rayCall.box.max = Pt(b.x + 10 * Abs(d.x), b.y + 10 * Abs(d.y), b.z + 10 * Abs(d.z))

\* a construction line with a non-zero direction was drawn
C23_Witness ==
    /\ rayCall.op = "draw"
    /\ ray.typeName = "Xline"
    /\ ray.unitDir = Pt(0 - 1, 1, 0)
    /\ ray.basePoint = Pt(1, 0, 0)
    /\ rayCall.points = <<Pt(1000001, 0 - 1000000, 0), Pt(0 - 999999, 1000000, 0)>>

----------------------------------------------------------------------------
(* Properties of the leader with fewer than two vertices *)

\* C24: while the leader has fewer than 2 vertices, a geometricExtents read
\* or a draw creates no cached spline, whatever isSplined is; the call does
\* not throw and works on the stored vertices (their box, or renderer.lines
\* of them).
C24_ShortLeaderHasNoSpline ==
    [][ (IsRead(leaderCall'.op) /\ Len(vertices) < 2) =>
          /\ splineGeo.isNull
          /\ splineGeo'.isNull
          /\ leaderCall'.rebuilds = 0
          /\ ~leaderCall'.threw
          /\ leaderCall'.src = "vertices"
          /\ leaderCall'.ret = vertices ]_vars

\* a draw of a splined leader whose only vertex was just appended
C24_Witness ==
    /\ leaderCall.op = "draw"
    /\ isSplined
    /\ Len(vertices) = 1
    /\ updated
    /\ splineGeo.isNull
    /\ leaderCall.ret = vertices

----------------------------------------------------------------------------
(* Properties of a sequence of makeEdgeInvisibleAt calls *)

\* C26: makeEdgeInvisibleAt(i) for i in 0..3 sets bit i of the mask and
\* leaves the other three bits as they were, so that over any run of such
\* calls an edge is invisible iff it was invisible before or was named by one
\* of the calls; repeating the call changes nothing more, and two calls give
\* the same mask in either order.
C26_MakeInvisibleAccumulates ==
    [][ (faceCall'.op = "makeEdgeInvisibleAt" /\ faceCall'.index \in 0..3) =>
          LET i == faceCall'.index
              before == edgeInvisibilities
              after == edgeInvisibilities'
          IN  /\ ~faceCall'.threw
              /\ \A j \in 0..3 : BitSet(after, j) <=> (BitSet(before, j) \/ j = i)
              /\ BitOr(after, Pow2(i)) = after
              /\ \A k \in 0..3 :
                    BitOr(BitOr(before, Pow2(i)), Pow2(k))
                        = BitOr(BitOr(before, Pow2(k)), Pow2(i)) ]_vars

\* edge 1 made invisible with edges 0 and 2 invisible: mask 0b0111
C26_Witness ==
    /\ faceCall.op = "makeEdgeInvisibleAt"
    /\ faceCall.index = 1
    /\ ~faceCall.threw
    /\ edgeInvisibilities = 7

----------------------------------------------------------------------------
(* Properties of the viewport's draw *)

\* C27: Viewport.draw returns a group exactly when number > 1 and the owner
\* is not the model space: four border lines wrapped in one group that
\* carries the viewport's objectId, layer name and visibility.  In every
\* other case it returns undefined, makes no renderer call and leaves the
\* renderer's trait context as it was.
C27_ViewportDrawnIffShown ==
    [][ (giCall' # giCall /\ giCall'.entity = "Viewport") =>
          LET calls == PrimitiveCalls(giCall'.log)
          IN  /\ ~giCall'.threw
              /\ IF viewport.number > 1 /\ ~viewport.inModelSpace
                 THEN /\ giCall'.ret = "group"
                      /\ Len(calls) = 5
                      /\ \A i \in 1..4 : calls[i].call = "lines"
                      /\ calls[5].call = "group"
                      /\ giCall'.info.tagged
                      /\ giCall'.info.objectId = viewport.objectId
                      /\ giCall'.info.layerName = viewport.layer
                      /\ giCall'.info.visible = viewport.visibility
                 ELSE /\ giCall'.ret = "undefined"
                      /\ giCall'.log = <<>>
                      /\ fillType' = fillType ]_vars

\* a hidden viewport number 2 on layer A in paper space was drawn after a trace
C27_Witness ==
    /\ giCall.entity = "Viewport"
    /\ giCall.ret = "group"
    /\ viewport.number = 2
    /\ giCall.info.layerName = "A"
    /\ ~giCall.info.visible
    /\ fillType = FillType(TRUE)

----------------------------------------------------------------------------
(* Properties of the mtext's background *)

\* C28: assigning backgroundFill, to true or to false, leaves the
\* backgroundFillColor as it was; the default 0xC8C8C8 stands only where no
\* colour was assigned.
C28_FillKeepsColor ==
    [][ mtextCall'.op = "backgroundFill" =>
          backgroundFillColor' = backgroundFillColor ]_vars

----------------------------------------------------------------------------
(* Properties of the raster image's extents *)

\* C30: for every state of a raster image with width and height >= 0 -
\* any position, also off the z = 0 plane, any rotation, clipped or not -
\* the box geometricExtents returns contains every point of boundaryPath.
C30_ExtentsContainBoundary ==
    (imageCall.op = "geometricExtents" /\ width >= 0 /\ height >= 0) =>
        \A i \in 1..Len(BoundaryPath) :
            InBox(BoundaryPath[i], [min |-> imageCall.ret[1], max |-> imageCall.ret[2]])

----------------------------------------------------------------------------
(* Properties of the queries *)

\* this step is one of the queries on the held entity: it left the name of a
\* query in the call record (every other call on a row of the properties tree
\* leaves its own name there)
QueryStep ==
    \/ leaderCall'.op = "geometricExtents" /\ leaderCall' # leaderCall
    \/ imageCall'.op \in {"subGetGripPoints", "geometricExtents"} /\ imageCall' # imageCall
    \/ lineCall'.op = "subGetOsnapPoints" /\ lineCall' # lineCall
    \/ entityCall'.op \in {"rgbColor", "lineStyle"} /\ entityCall' # entityCall
    \/ selected = "Properties" /\ propCall'.op = "accessorGet"
    \/ shapeCall'.op = "subGetGripPoints" /\ shapeCall' # shapeCall
    \/ rayCall'.op = "geometricExtents" /\ rayCall' # rayCall

\* the style and geometry an entity stores
StoredState ==
    << entity, database, vertices, isSplined, position, width, height, rotation,
       isClipped, clipBoundary, edgeInvisibilities, line, shape, ray, edited, fields >>

\* C22: geometricExtents, subGetGripPoints, subGetOsnapPoints, rgbColor,
\* lineStyle and reading a property never change the stored style or geometry
\* of the entity (layer, color, lineType, vertices, position, width, height,
\* rotation, clip boundary, edge mask), in any state of any entity type; the
\* leader's cached spline and its dirty flag are the only fields a query writes.
C22_QueriesChangeNoStoredState ==
    [][ QueryStep => UNCHANGED StoredState ]_vars

\* a geometricExtents of a splined leader that rebuilt the cached spline
C22_Witness ==
    /\ selected = "Leader"
    /\ leaderCall.op = "geometricExtents"
    /\ leaderCall.rebuilds = 1
    /\ isSplined
    /\ ~splineGeo.isNull
    /\ ~updated

====
